---- MODULE Spec2Model ----
(***************************************************************************)
(* State-machine model of the AI gateway's request pipeline                *)
(* (src/src/server.rs proxy_handler), its rate limiter                     *)
(* (src/src/ratelimit.rs), its concurrency controller                      *)
(* (src/src/concurrency.rs), the admin hot swap (src/src/admin.rs) and the *)
(* response body deadline (src/src/server.rs enforce_response_deadline).   *)
(***************************************************************************)
EXTENDS Integers, Sequences, FiniteSets, TLC

VARIABLES
    now,          \* wall clock, seconds since the epoch (SystemTime::now)
    runtime,      \* the state cell: index of the current runtime state
    states,       \* runtime states by index: config, limiter, semaphores, gauges
    reqs,         \* request tasks by slot: position in proxy_handler and locals
    admin,        \* the admin token and the outcome of the last PUT: status, error code
    rl,           \* a stand-alone RateLimiter: minute_bucket, counters
    rlTask,       \* callers of RateLimiter::check: position and timestamp read
    rlLog,        \* history of the decisions of the stand-alone limiter
    body,         \* a response body stream read under enforce_response_deadline
    call,         \* the last call of a function of the gateway: name, arguments, result
    disk,         \* the config file, its temp file and the save requests at work
    summary       \* a GatewayMetrics: in-flight gauge, SummaryState and the requests counted

vars == <<now, runtime, states, reqs, admin, rl, rlTask, rlLog, body, call, disk, summary>>

-----------------------------------------------------------------------------
(* Option<T>: None is the empty sequence, Some(x) the one-element sequence. *)
None == <<>>
Some(x) == <<x>>
IsSome(o) == o /= <<>>
Unwrap(o) == o[1]


-----------------------------------------------------------------------------
(* Bounds of the model.                                                     *)
NumSlots == 2        \* request tasks that can be in flight at once
MaxPuts == 1         \* admin PUTs that build a new runtime state
StartSecond == 58    \* wall clock at start-up
MaxSecond == 60      \* the wall clock stops ticking here

Slots == 1..NumSlots
(* Concurrent callers of RateLimiter::check and the checks they make.      *)
NumCheckers == 2
MaxChecks == 4
Checkers == 1..NumCheckers
(* The clock of a forwarded request, in milliseconds, and the chunks of a  *)
(* response body.                                                           *)
MaxClock == 4
MaxChunks == 2

-----------------------------------------------------------------------------
(* Strings that the code inspects character by character are sequences of  *)
(* one-character strings.                                                   *)
IsPrefixOf(p, s) == Len(p) <= Len(s) /\ SubSeq(s, 1, Len(p)) = p

(* path_matches_prefix without the test of the character after the prefix. *)
path_matches_prefix_unbounded(path, prefix) ==
    IF ~(Len(path) > 0 /\ path[1] = "/") \/ ~(Len(prefix) > 0 /\ prefix[1] = "/")
    THEN FALSE
    ELSE IF prefix = <<"/">> THEN TRUE
    ELSE IsPrefixOf(prefix, path)

path_matches_prefix(path, prefix) ==
    IF ~(Len(path) > 0 /\ path[1] = "/") \/ ~(Len(prefix) > 0 /\ prefix[1] = "/")
    THEN FALSE
    ELSE IF prefix = <<"/">> THEN TRUE
    ELSE IF ~IsPrefixOf(prefix, path) THEN FALSE
    ELSE IF Len(path) = Len(prefix) THEN TRUE
    ELSE path[Len(prefix) + 1] = "/"

(* Iterator::max_by_key returns the last element among those with the      *)
(* maximum key.                                                             *)
match_route(path, routes) ==
    LET idx == {i \in 1..Len(routes) : path_matches_prefix(path, routes[i].prefix)}
    IN  IF idx = {} THEN None
        ELSE LET best == CHOOSE i \in idx :
                            \A j \in idx :
                                \/ Len(routes[j].prefix) < Len(routes[i].prefix)
                                \/ Len(routes[j].prefix) = Len(routes[i].prefix) /\ j <= i
             IN  Some(routes[best])

normalize_path(path) ==
    IF path = <<>> THEN <<"/">>
    ELSE IF path[1] = "/" THEN path
    ELSE <<"/">> \o path

(* rewrite_path that strips nothing.                                        *)
rewrite_path_unstripped(path, prefix, strip_prefix) == normalize_path(path)

rewrite_path(path, prefix, strip_prefix) ==
    IF ~strip_prefix THEN normalize_path(path)
    ELSE IF prefix = <<"/">> THEN normalize_path(path)
    ELSE IF ~path_matches_prefix(path, prefix) THEN normalize_path(path)
    ELSE LET rest == SubSeq(path, Len(prefix) + 1, Len(path))
         IN  IF rest = <<>> THEN <<"/">> ELSE normalize_path(rest)

(* The upstream URL is kept as the pair (base_url, rewritten path).        *)
build_upstream_url_for_route(route, request_path) ==
    IF ~path_matches_prefix(request_path, route.prefix) THEN None
    ELSE Some(<<route.upstream.base_url,
                rewrite_path(request_path, route.prefix, route.upstream.strip_prefix)>>)

-----------------------------------------------------------------------------
(* Header names and values.  A header value is the sequence of its         *)
(* space-separated words; the empty sequence is the empty value.           *)
AsciiLower(name) ==
    CASE name = "X-Api-Key" -> "x-api-key"
      [] name = "Authorization" -> "authorization"
      [] name = "Bearer" -> "bearer"
      [] name = "BEARER" -> "bearer"
      [] name = "X-Other" -> "x-other"
      [] name = "X-Trace" -> "x-trace"
      [] name = "Host" -> "host"
      [] name = "Connection" -> "connection"
      [] name = "X-Forwarded-For" -> "x-forwarded-for"
      [] name = "GW1" -> "gw1"
      [] name = "TEXT/Event-Stream" -> "text/event-stream"
      [] OTHER -> name

(* HeaderName::from_bytes rejects a name holding a space.                  *)
ValidHeaderName(name) == name \notin {"bad name", ""}

(* A piece of a header value that holds a byte outside visible ASCII.      *)
NotVisibleAscii == {"<0xff>"}

(* HeaderValue::from_str rejects control characters.                       *)
ValidHeaderValue(value) == \A i \in 1..Len(value) : value[i] /= "<0x0a>"

upsert_header_ok(injection) ==
    ValidHeaderName(injection.name) /\ ValidHeaderValue(injection.value)

HOP_BY_HOP_HEADERS ==
    <<"connection", "keep-alive", "proxy-authenticate", "proxy-authorization", "te",
      "trailer", "transfer-encoding", "upgrade">>
FORWARDED_IP_HEADERS ==
    <<"x-forwarded-for", "forwarded", "cf-connecting-ip", "true-client-ip", "x-real-ip">>

(* A HeaderMap is a function from lower-case names to the values held for  *)
(* the name, in order.  HeaderMap::remove drops every value of the name,   *)
(* HeaderMap::insert replaces them by one.                                  *)
NoHeaders == <<>>
header_remove(headers, name) == [n \in DOMAIN headers \ {name} |-> headers[n]]
header_insert(headers, name, value) ==
    [n \in DOMAIN headers \cup {name} |-> IF n = name THEN <<value>> ELSE headers[n]]

(* remove_header_case_insensitive, lines 167-171.                          *)
remove_header_case_insensitive(headers, header_name) ==
    IF ValidHeaderName(header_name)
    THEN header_remove(headers, AsciiLower(header_name))
    ELSE headers

RECURSIVE remove_each(_, _)
remove_each(headers, names) ==
    IF names = <<>> THEN headers
    ELSE remove_each(remove_header_case_insensitive(headers, Head(names)), Tail(names))

(* upsert_header, lines 157-165.                                           *)
upsert_header(headers, injection) ==
    IF ~ValidHeaderName(injection.name) THEN None
    ELSE IF ~ValidHeaderValue(injection.value) THEN None
    ELSE Some(header_insert(headers, AsciiLower(injection.name), injection.value))

(* for header in &upstream.inject_headers { upsert_header(..)?; }          *)
RECURSIVE upsert_each(_, _)
upsert_each(headers, injections) ==
    IF injections = <<>> THEN Some(headers)
    ELSE LET upserted == upsert_header(headers, Head(injections))
         IN  IF upserted = None THEN None
             ELSE upsert_each(Unwrap(upserted), Tail(injections))

(* prepare_upstream_headers that injects before it removes.                *)
prepare_upstream_headers_inject_first(inbound, upstream) ==
    LET injected == upsert_each(inbound, upstream.inject_headers)
    IN  IF injected = None THEN None
        ELSE LET no_hop == remove_each(Unwrap(injected), HOP_BY_HOP_HEADERS)
                 no_removed == remove_each(no_hop, upstream.remove_headers)
                 no_forwarded == IF ~upstream.forward_xff
                                 THEN remove_each(no_removed, FORWARDED_IP_HEADERS)
                                 ELSE no_removed
             IN  Some(header_remove(no_forwarded, "host"))

(* prepare_upstream_headers, lines 121-147.                                *)
prepare_upstream_headers(inbound, upstream) ==
    LET no_hop == remove_each(inbound, HOP_BY_HOP_HEADERS)
        no_removed == remove_each(no_hop, upstream.remove_headers)
        no_forwarded == IF ~upstream.forward_xff
                        THEN remove_each(no_removed, FORWARDED_IP_HEADERS)
                        ELSE no_removed
        injected == upsert_each(no_forwarded, upstream.inject_headers)
    IN  IF injected = None THEN None
        ELSE Some(header_remove(Unwrap(injected), "host"))

-----------------------------------------------------------------------------
(* Upstream key derivation, src/src/concurrency.rs.                        *)
parse_bearer_token(value) ==
    IF Len(value) < 2 THEN None
    ELSE IF AsciiLower(value[1]) /= "bearer" THEN None
    ELSE Some(SubSeq(value, 2, Len(value)))

find_injected_header_value(route, header_name) ==
    LET hs == route.upstream.inject_headers
        idx == {i \in 1..Len(hs) : AsciiLower(hs[i].name) = header_name}
    IN  IF idx = {} THEN None
        ELSE LET last == CHOOSE i \in idx : \A j \in idx : j <= i
             IN  IF hs[last].value = <<>> THEN None ELSE Some(hs[last].value)

upstream_key_header_names == <<"authorization", "x-api-key">>

extract_upstream_key_from_injected_headers(route) ==
    LET auth == find_injected_header_value(route, upstream_key_header_names[1])
        api  == find_injected_header_value(route, upstream_key_header_names[2])
    IN  IF IsSome(auth)
        THEN LET bearer == parse_bearer_token(Unwrap(auth))
             IN  Some(<<"authorization",
                        IF IsSome(bearer) THEN Unwrap(bearer) ELSE Unwrap(auth)>>)
        ELSE IF IsSome(api) THEN Some(<<"x-api-key", Unwrap(api)>>)
        ELSE None

(* DefaultHasher is a 64-bit hash and not injective: the model lets every  *)
(* key material of one header name collide.                                *)
fingerprint(key_material) ==
    CASE key_material = <<"default">> -> 0
      [] key_material[1] = "authorization" -> 1
      [] OTHER -> 2

(* acquire_upstream, lines 71-72: the key material of a route.             *)
key_material_of(route) ==
    LET extracted == extract_upstream_key_from_injected_headers(route)
    IN  IF IsSome(extracted) THEN Unwrap(extracted) ELSE <<"default">>

(* A semaphore key that leaves out the route id.                           *)
semaphore_key_without_route(route) ==
    LET extracted == extract_upstream_key_from_injected_headers(route)
        key_material == IF IsSome(extracted) THEN Unwrap(extracted) ELSE <<"default">>
    IN  <<"", fingerprint(key_material)>>

semaphore_key_of(route) == <<route.id, fingerprint(key_material_of(route))>>

-----------------------------------------------------------------------------
(* Configurations, src/src/config.rs.                                      *)
Upstream(inject, limit, proxy) ==
    [base_url |-> "http://upstream", strip_prefix |-> TRUE,
     connect_timeout_ms |-> 1, request_timeout_ms |-> 2,
     inject_headers |-> inject, remove_headers |-> <<>>, forward_xff |-> FALSE,
     upstream_key_max_inflight |-> limit, proxy |-> proxy]

Route(id, prefix, upstream) == [id |-> id, prefix |-> prefix, upstream |-> upstream]

Inject(name, value) == [name |-> name, value |-> value]

RouteIds == {"a", "b"}

(* Route a carries its own per-key limit; route b injects a header whose   *)
(* name cannot be encoded and has no effective per-key limit.              *)
CfgOne ==
    [tokens |-> <<"gw1">>,
     routes |-> << Route("a", <<"/", "a">>,
                         Upstream(<<Inject("X-Api-Key", <<"key-a">>)>>, Some(1), None)),
                   Route("b", <<"/", "b">>,
                         Upstream(<<Inject("bad name", <<"v">>)>>, None, None)) >>,
     cors |-> Some([enabled |-> TRUE, allow_origins |-> {"https://app"}]),
     rate_limit |-> Some([per_minute |-> 1]),
     concurrency |-> Some([downstream_max_inflight |-> Some(1),
                           upstream_per_key_max_inflight |-> None]),
     metrics |-> TRUE, metrics_token |-> "mtk"]

(* Both routes fall under the global per-key limit; the two injected keys  *)
(* differ.                                                                  *)
CfgTwo ==
    [tokens |-> <<"gw1">>,
     routes |-> << Route("a", <<"/", "a">>,
                         Upstream(<<Inject("X-Api-Key", <<"key-a2">>)>>, None, None)),
                   Route("b", <<"/", "b">>,
                         Upstream(<<Inject("X-Api-Key", <<"key-b">>)>>, None, None)) >>,
     cors |-> None,
     rate_limit |-> None,
     concurrency |-> Some([downstream_max_inflight |-> Some(2),
                           upstream_per_key_max_inflight |-> Some(1)]),
     metrics |-> TRUE, metrics_token |-> "mtk"]

(* per_minute = 0 is rejected by validate.                                 *)
CfgZeroRate == [CfgOne EXCEPT !.rate_limit = Some([per_minute |-> 0])]

(* A per-key limit without an injected key is rejected by validate.        *)
CfgNoKey ==
    [CfgTwo EXCEPT !.routes[2].upstream.inject_headers = <<Inject("X-Other", <<"v">>)>>]

(* validate accepts any non-empty proxy address; the client builder does   *)
(* not.                                                                     *)
CfgBadProxy ==
    [CfgTwo EXCEPT !.routes[1].upstream.proxy = Some([address |-> "not a url"])]

StartConfigs == {CfgOne, CfgTwo}
PutConfigs == {CfgOne, CfgTwo, CfgZeroRate, CfgNoKey, CfgBadProxy}

route_has_upstream_key_injection(route) ==
    \E i \in 1..Len(route.upstream.inject_headers) :
        LET header == route.upstream.inject_headers[i]
        IN  /\ header.value /= <<>>
            /\ \E n \in 1..Len(upstream_key_header_names) :
                   AsciiLower(header.name) = upstream_key_header_names[n]

validate(config) ==
    LET routes == config.routes
        has_global == /\ IsSome(config.concurrency)
                      /\ IsSome(Unwrap(config.concurrency).upstream_per_key_max_inflight)
    IN  /\ config.tokens /= <<>>
        /\ \A i \in 1..Len(config.tokens) : config.tokens[i] /= ""
        /\ routes /= <<>>
        /\ \A i \in 1..Len(routes) :
              /\ routes[i].id /= ""
              /\ \A j \in 1..Len(routes) : j /= i => routes[j].id /= routes[i].id
              /\ Len(routes[i].prefix) > 0 /\ routes[i].prefix[1] = "/"
              /\ ~(Len(routes[i].prefix) > 1 /\ routes[i].prefix[Len(routes[i].prefix)] = "/")
              /\ \A j \in 1..Len(routes) : j /= i => routes[j].prefix /= routes[i].prefix
              /\ routes[i].upstream.base_url /= ""
              /\ routes[i].upstream.connect_timeout_ms /= 0
              /\ routes[i].upstream.request_timeout_ms /= 0
              /\ routes[i].upstream.upstream_key_max_inflight /= Some(0)
              /\ IsSome(routes[i].upstream.proxy) =>
                     Unwrap(routes[i].upstream.proxy).address /= ""
              /\ \A h \in 1..Len(routes[i].upstream.inject_headers) :
                     routes[i].upstream.inject_headers[h].name /= ""
        /\ config.metrics => config.metrics_token /= ""
        /\ IsSome(config.rate_limit) => Unwrap(config.rate_limit).per_minute /= 0
        /\ IsSome(config.concurrency) =>
              /\ Unwrap(config.concurrency).downstream_max_inflight /= Some(0)
              /\ Unwrap(config.concurrency).upstream_per_key_max_inflight /= Some(0)
        /\ \A i \in 1..Len(routes) :
              (has_global \/ IsSome(routes[i].upstream.upstream_key_max_inflight))
                  => route_has_upstream_key_injection(routes[i])

-----------------------------------------------------------------------------
(* Runtime state, src/src/server.rs build_app.                             *)
build_proxy_url(proxy) == IF proxy.address = "not a url" THEN None ELSE Some(proxy.address)

build_upstream_clients(config) ==
    IF \A i \in 1..Len(config.routes) :
           IsSome(config.routes[i].upstream.proxy) =>
               IsSome(build_proxy_url(Unwrap(config.routes[i].upstream.proxy)))
    THEN Some({config.routes[i].id : i \in 1..Len(config.routes)})
    ELSE None

RateLimiterNew(per_minute, epoch_seconds) ==
    [per_minute |-> per_minute, minute_bucket |-> epoch_seconds \div 60, counters |-> <<>>]

ConcurrencyControllerNew(config) ==
    LET downstream_limit ==
            IF IsSome(config.concurrency)
            THEN Unwrap(config.concurrency).downstream_max_inflight ELSE None
        upstream_default_limit ==
            IF IsSome(config.concurrency)
            THEN Unwrap(config.concurrency).upstream_per_key_max_inflight ELSE None
        has_route_override ==
            \E i \in 1..Len(config.routes) :
                IsSome(config.routes[i].upstream.upstream_key_max_inflight)
    IN  IF downstream_limit = None /\ upstream_default_limit = None /\ ~has_route_override
        THEN None
        ELSE Some([downstream_semaphore |-> downstream_limit,
                   upstream_default_limit |-> upstream_default_limit,
                   upstream_semaphores |-> <<>>])

(* Gauges are created on first use; an absent gauge reads 0.               *)
build_runtime_state(config, epoch_seconds) ==
    LET clients == build_upstream_clients(config)
    IN  IF clients = None THEN None
        ELSE Some([config |-> config,
                   upstream_clients |-> Unwrap(clients),
                   rate_limiter |->
                       IF IsSome(config.rate_limit)
                       THEN Some(RateLimiterNew(Unwrap(config.rate_limit).per_minute,
                                                epoch_seconds))
                       ELSE None,
                   concurrency |-> ConcurrencyControllerNew(config),
                   inflight |-> [id \in RouteIds |-> 0],
                   sse_inflight |-> [id \in RouteIds |-> 0]])

-----------------------------------------------------------------------------
(* Rate limiter, src/src/ratelimit.rs.                                     *)
SecondsPerMinute == 60

retry_after_seconds(epoch_seconds) ==
    LET remaining == SecondsPerMinute - (epoch_seconds % SecondsPerMinute)
    IN  IF remaining = 0 THEN SecondsPerMinute ELSE remaining

(* format!("{route_id}\n{token}") *)
(* The text of a route id or token, in pieces around its line feeds.       *)
Text(string) ==
    CASE string = "a\nb" -> <<"a", "\n", "b">>
      [] OTHER -> <<string>>

(* A key made of the route id alone.                                        *)
RateKey_route_only(route_id, token) == Text(route_id) \o <<"\n">>

(* format!("{route_id}\n{token}"), line 52.                                 *)
RateKey(route_id, token) == Text(route_id) \o <<"\n">> \o Text(token)

(* A window that is only reset when the minute goes down.                  *)
BucketChanged_reversed(stored_bucket, minute_bucket) == stored_bucket > minute_bucket

(* A window that is only reset when the minute goes up.                    *)
BucketChanged_advance_only(stored_bucket, minute_bucket) == stored_bucket < minute_bucket

BucketChanged(stored_bucket, minute_bucket) == stored_bucket /= minute_bucket

(* A budget test that lets one check more through.                         *)
BudgetSpent_one_late(counter, per_minute) == counter > per_minute

BudgetSpent(counter, per_minute) == counter >= per_minute

(* A check that counts the checks it denies as well.                       *)
check_at_epoch_seconds_counting_denied(limiter, token, route_id, epoch_seconds) ==
    LET minute_bucket == epoch_seconds \div SecondsPerMinute
        rotated == IF BucketChanged(limiter.minute_bucket, minute_bucket)
                   THEN [limiter EXCEPT !.minute_bucket = minute_bucket, !.counters = <<>>]
                   ELSE limiter
        key == RateKey(route_id, token)
        entered == IF key \in DOMAIN rotated.counters
                   THEN rotated.counters
                   ELSE (key :> 0) @@ rotated.counters
        counter == entered[key]
    IN  [limiter |-> [rotated EXCEPT !.counters = [entered EXCEPT ![key] = counter + 1]],
         allowed |-> ~BudgetSpent(counter, limiter.per_minute),
         retry_after_secs |-> IF BudgetSpent(counter, limiter.per_minute)
                              THEN retry_after_seconds(epoch_seconds) ELSE 0]

check_at_epoch_seconds(limiter, token, route_id, epoch_seconds) ==
    LET minute_bucket == epoch_seconds \div SecondsPerMinute
        rotated == IF BucketChanged(limiter.minute_bucket, minute_bucket)
                   THEN [limiter EXCEPT !.minute_bucket = minute_bucket, !.counters = <<>>]
                   ELSE limiter
        key == RateKey(route_id, token)
        entered == IF key \in DOMAIN rotated.counters
                   THEN rotated.counters
                   ELSE (key :> 0) @@ rotated.counters
        counter == entered[key]
    IN  IF BudgetSpent(counter, limiter.per_minute)
        THEN [limiter |-> [rotated EXCEPT !.counters = entered],
              allowed |-> FALSE,
              retry_after_secs |-> retry_after_seconds(epoch_seconds)]
        ELSE [limiter |-> [rotated EXCEPT !.counters = [entered EXCEPT ![key] = counter + 1]],
              allowed |-> TRUE,
              retry_after_secs |-> 0]

-----------------------------------------------------------------------------
(* Authentication and CORS as proxy_handler consumes them.  The candidate  *)
(* is the token that extract_token found in the request, if any.           *)
(* An authentication that accepts every token a request presents.          *)
extract_authorized_token_any_presented(candidate, tokens) == candidate

extract_authorized_token(candidate, tokens) ==
    IF IsSome(candidate) /\ \E i \in 1..Len(tokens) : tokens[i] = Unwrap(candidate)
    THEN candidate
    ELSE None

is_cors_preflight(method, origin, acrm) == method = "OPTIONS" /\ IsSome(origin) /\ acrm

(* resolve_allow_origin that reflects whatever origin the request names.   *)
resolve_allow_origin_reflecting(cors, request_origin) ==
    IF request_origin = None THEN None ELSE request_origin

(* extract_origin, lines 1117-1122: an Origin that is no string is dropped. *)
extract_origin(origin_header) ==
    IF IsSome(origin_header) /\ Unwrap(origin_header) \in NotVisibleAscii
    THEN None ELSE origin_header

resolve_allow_origin(cors, request_origin) ==
    IF request_origin = None THEN None
    ELSE IF "*" \in cors.allow_origins THEN Some("*")
    ELSE IF Unwrap(request_origin) \in cors.allow_origins THEN request_origin
    ELSE None

Response(status, code, outcome) == [status |-> status, code |-> code, outcome |-> outcome]

(* build_preflight_response whose refusal is counted under its error code. *)
build_preflight_response_own_outcome(cors, request_origin) ==
    IF resolve_allow_origin(cors, request_origin) = None
    THEN Response(403, "cors_origin_not_allowed", "cors_origin_not_allowed")
    ELSE Response(204, "", "preflight")

(* build_preflight_response, lines 1013-1055, with the outcome label of    *)
(* lines 415-432.                                                           *)
build_preflight_response(cors, request_origin) ==
    IF resolve_allow_origin(cors, request_origin) = None
    THEN Response(403, "cors_origin_not_allowed", "preflight")
    ELSE Response(204, "", "preflight")

NoResponse == Response(0, "", "")

-----------------------------------------------------------------------------
(* Inputs of the model.                                                     *)
Paths == { <<"/", "a", "/", "x">>, <<"/", "b">>, <<"/", "a", "2">> }
(* Method, Origin header and presence of Access-Control-Request-Method.     *)
Shape(method, origin, acrm) == [method |-> method, origin |-> origin, acrm |-> acrm]
RequestShapes ==
    { Shape("GET", None, FALSE),
      Shape("OPTIONS", Some("https://app"), TRUE), Shape("OPTIONS", Some("https://evil"), TRUE),
      Shape("OPTIONS", Some("<0xff>"), TRUE) }
Candidates == {None, Some("gw1"), Some("bad")}
AdminToken == "adm"
AdminHeaders == {None, Some("adm"), Some("gw1")}

(* The fixed order of the checks of proxy_handler.                         *)
CheckOrder == <<"route", "preflight", "auth", "rate", "downstream", "url", "headers",
                "client", "upstream", "forward">>

IdleReq ==
    [pc |-> "idle", rt |-> 0, route |-> 0, path |-> <<>>, token |-> "",
     down |-> FALSE, sem |-> None, up |-> FALSE, headers |-> None, is_sse |-> FALSE,
     resp |-> NoResponse, retry_after |-> 0, trace |-> <<>>, used |-> {},
     observed |-> 0, observed_as |-> "", error |-> None]

(* The gateway after start-up with one of `configs`; the admin token of    *)
(* the process is one of `admin_tokens`.                                    *)
Started(configs, admin_tokens) ==
    /\ now = StartSecond
    /\ runtime = 1
    /\ \E config \in configs :
           states = << Unwrap(build_runtime_state(config, StartSecond)) >>
    /\ reqs = [r \in Slots |-> IdleReq]
    /\ admin \in { [token |-> t, status |-> 0, code |-> "", stored |-> FALSE]
                   : t \in admin_tokens }

Init ==
    /\ Started(StartConfigs, {Some(AdminToken)})
    /\ rl = None
    /\ rlTask = <<>>
    /\ rlLog = <<>>
    /\ body = None
    /\ call = None
    /\ disk = None
    /\ summary = None

-----------------------------------------------------------------------------
(* proxy_handler, src/src/server.rs, one action per shared-state access.   *)

(* The runtime state a request works on: the one it took from the state    *)
(* cell when it started.                                                    *)
StateIndex(r) == reqs[r].rt

StateOf(r) == states[StateIndex(r)]
RouteOf(r) == StateOf(r).config.routes[reqs[r].route]

Touch(r, req) == [req EXCEPT !.used = @ \cup {StateIndex(r)}]

(* finalize_observed_proxy_response: the completion is observed, the       *)
(* response is fixed, and the permits held in locals are dropped on return. *)
(* A finished request task keeps its response, its route and its history.  *)
Done(req) ==
    [req EXCEPT !.pc = "done", !.path = <<>>, !.token = "", !.headers = None,
                !.sem = None, !.is_sse = FALSE]

(* The route id under which a request is observed: lines 397-411 for a     *)
(* path no route matches, route.id for the others.                         *)
ObservedAs(req) ==
    IF req.route = 0 THEN "__unmatched__" ELSE states[req.rt].config.routes[req.route].id

(* A response that is fixed and returned with no observation.              *)
Finalize_unobserved(req, response) ==
    LET answered == [req EXCEPT !.resp = response]
    IN  IF req.down \/ req.up THEN [answered EXCEPT !.pc = "unwind"] ELSE Done(answered)

Finalize(req, response) ==
    LET answered == [req EXCEPT !.resp = response, !.observed = @ + 1,
                                !.observed_as = ObservedAs(req)]
    IN  IF req.down \/ req.up THEN [answered EXCEPT !.pc = "unwind"] ELSE Done(answered)

Evaluated(req, check) == [req EXCEPT !.trace = Append(@, check)]

RouteIndex(config, route) == CHOOSE i \in 1..Len(config.routes) : config.routes[i] = route

(* admit with the gateway token checked before the preflight is answered.  *)
admit_auth_first(fresh, config, path, method, origin, acrm, candidate) ==
    LET matched == match_route(path, config.routes)
        cors_config == IF IsSome(config.cors) /\ Unwrap(config.cors).enabled
                       THEN config.cors ELSE None
        token == extract_authorized_token(candidate, config.tokens)
        r1 == Evaluated(fresh, "route")
        r2 == Evaluated([r1 EXCEPT !.route = RouteIndex(config, Unwrap(matched))], "auth")
        r3 == Evaluated(r2, "preflight")
    IN  IF matched = None
        THEN Finalize(r1, Response(404, "route_not_found", "route_not_found"))
        ELSE IF token = None
        THEN Finalize(r2, Response(401, "unauthorized", "unauthorized"))
        ELSE IF IsSome(cors_config) /\ is_cors_preflight(method, origin, acrm)
        THEN Finalize(r3, build_preflight_response(Unwrap(cors_config), extract_origin(origin)))
        ELSE [r3 EXCEPT !.token = Unwrap(token), !.pc = "rate"]

(* Lines 396-451 on a fresh request record: match the route, answer a     *)
(* preflight, authenticate.                                                 *)
admit(fresh, config, path, method, origin, acrm, candidate) ==
    LET matched == match_route(path, config.routes)
        cors_config == IF IsSome(config.cors) /\ Unwrap(config.cors).enabled
                       THEN config.cors ELSE None
        token == extract_authorized_token(candidate, config.tokens)
        r1 == Evaluated(fresh, "route")
        r2 == Evaluated([r1 EXCEPT !.route = RouteIndex(config, Unwrap(matched))],
                        "preflight")
        r3 == Evaluated(r2, "auth")
    IN  IF matched = None
        THEN Finalize(r1, Response(404, "route_not_found", "route_not_found"))
        ELSE IF IsSome(cors_config) /\ is_cors_preflight(method, origin, acrm)
        THEN Finalize(r2, build_preflight_response(Unwrap(cors_config), extract_origin(origin)))
        ELSE IF token = None
        THEN Finalize(r3, Response(401, "unauthorized", "unauthorized"))
        ELSE [r3 EXCEPT !.token = Unwrap(token), !.pc = "rate"]

(* Start of proxy_handler: the request takes the current runtime state     *)
(* from the state cell and keeps it.                                        *)
Receive(r, path, method, origin, acrm, candidate) ==
    /\ reqs[r].pc \in {"idle", "done"}
    /\ \A q \in Slots : q < r => reqs[q].pc /= "idle"
    /\ LET fresh == [IdleReq EXCEPT !.rt = runtime, !.used = {runtime}, !.path = path]
       IN  reqs' = [reqs EXCEPT ![r] =
                admit(fresh, states[runtime].config, path, method, origin, acrm, candidate)]
    /\ UNCHANGED <<now, runtime, states, admin, rl, rlTask, rlLog, body, call, disk, summary>>

(* Lines 453-480: rate_limiter.check(&token, &route.id).                   *)
RateCheck(r) ==
    /\ reqs[r].pc = "rate"
    /\ LET g == StateIndex(r)
           req == Evaluated(Touch(r, reqs[r]), "rate")
       IN  IF states[g].rate_limiter = None
           THEN /\ reqs' = [reqs EXCEPT ![r] = [req EXCEPT !.pc = "downstream"]]
                /\ UNCHANGED states
           ELSE LET res == check_at_epoch_seconds(Unwrap(states[g].rate_limiter),
                                                  reqs[r].token, RouteOf(r).id, now)
                IN  /\ states' = [states EXCEPT ![g].rate_limiter = Some(res.limiter)]
                    /\ reqs' = [reqs EXCEPT ![r] =
                           IF res.allowed
                           THEN [req EXCEPT !.pc = "downstream"]
                           ELSE Finalize([req EXCEPT !.retry_after = res.retry_after_secs],
                                         Response(429, "rate_limited", "rate_limited"))]
    /\ UNCHANGED <<now, runtime, admin, rl, rlTask, rlLog, body, call, disk, summary>>

(* try_acquire that hands out one permit more than the semaphore holds.    *)
try_acquire_one_more(available) == available >= 0

(* Semaphore::try_acquire_owned on a semaphore with `available` permits.   *)
try_acquire(available) == available > 0

(* Lines 482-508: concurrency.acquire_downstream().                        *)
AcquireDownstream(r) ==
    /\ reqs[r].pc = "downstream"
    /\ LET g == StateIndex(r)
           req == Evaluated(Touch(r, reqs[r]), "downstream")
           ctl == states[g].concurrency
       IN  IF ctl = None \/ Unwrap(ctl).downstream_semaphore = None
           THEN /\ reqs' = [reqs EXCEPT ![r] = [req EXCEPT !.pc = "build"]]
                /\ UNCHANGED states
           ELSE LET available == Unwrap(Unwrap(ctl).downstream_semaphore)
                IN  IF try_acquire(available)
                    THEN /\ states' = [states EXCEPT ![g].concurrency =
                                Some([Unwrap(ctl) EXCEPT !.downstream_semaphore =
                                          Some(available - 1)])]
                         /\ reqs' = [reqs EXCEPT ![r] =
                                [req EXCEPT !.down = TRUE, !.pc = "build"]]
                    ELSE /\ reqs' = [reqs EXCEPT ![r] =
                                Finalize(req, Response(503, "downstream_concurrency_exceeded",
                                                       "concurrency"))]
                         /\ UNCHANGED states
    /\ UNCHANGED <<now, runtime, admin, rl, rlTask, rlLog, body, call, disk, summary>>

(* Lines 510-567: upstream URL, upstream headers, upstream client.  These  *)
(* read the request and the route only.                                     *)
BuildUpstream(r) ==
    /\ reqs[r].pc = "build"
    /\ LET route == RouteOf(r)
           upstream_url == build_upstream_url_for_route(route, reqs[r].path)
           upstream_headers == prepare_upstream_headers(NoHeaders, route.upstream)
           r1 == Evaluated(Touch(r, reqs[r]), "url")
           r2 == Evaluated(r1, "headers")
           r3 == Evaluated(r2, "client")
       IN  reqs' = [reqs EXCEPT ![r] =
                IF upstream_url = None
                THEN Finalize(r1, Response(400, "invalid_upstream_path", "gateway_error"))
                ELSE IF upstream_headers = None
                THEN Finalize(r2, Response(502, "upstream_header_error", "gateway_error"))
                ELSE IF route.id \notin StateOf(r).upstream_clients
                THEN Finalize(r3, Response(502, "upstream_client_not_found", "gateway_error"))
                ELSE [r3 EXCEPT !.headers = upstream_headers, !.pc = "upstream_lock"]]
    /\ UNCHANGED <<now, runtime, states, admin, rl, rlTask, rlLog, body, call, disk, summary>>

(* route.upstream.upstream_key_max_inflight.or(self.upstream_default_limit) *)
effective_limit(route, upstream_default_limit) ==
    IF IsSome(route.upstream.upstream_key_max_inflight)
    THEN route.upstream.upstream_key_max_inflight
    ELSE upstream_default_limit

(* entry_or_insert that creates a semaphore on every access.               *)
entry_always_insert(semaphores, semaphore_key, limit) ==
    (semaphore_key :> limit) @@ semaphores

(* semaphores.entry(semaphore_key).or_insert_with(|| Semaphore::new(limit)) *)
entry_or_insert(semaphores, semaphore_key, limit) ==
    IF semaphore_key \in DOMAIN semaphores
    THEN semaphores
    ELSE (semaphore_key :> limit) @@ semaphores

(* concurrency.rs lines 59-81: under the map's lock, find or create the    *)
(* route's semaphore and clone its handle.                                  *)
UpstreamLock(r) ==
    /\ reqs[r].pc = "upstream_lock"
    /\ LET g == StateIndex(r)
           req == Touch(r, reqs[r])
           ctl == states[g].concurrency
           limit == effective_limit(RouteOf(r), Unwrap(ctl).upstream_default_limit)
           key == semaphore_key_of(RouteOf(r))
       IN  IF ctl = None \/ limit = None
           THEN /\ reqs' = [reqs EXCEPT ![r] =
                       [Evaluated(req, "upstream") EXCEPT !.pc = "inflight"]]
                /\ UNCHANGED states
           ELSE /\ states' = [states EXCEPT ![g].concurrency =
                       Some([Unwrap(ctl) EXCEPT !.upstream_semaphores =
                                 entry_or_insert(@, key, Unwrap(limit))])]
                /\ reqs' = [reqs EXCEPT ![r] =
                       [req EXCEPT !.sem = Some(key), !.pc = "upstream_acquire"]]
    /\ UNCHANGED <<now, runtime, admin, rl, rlTask, rlLog, body, call, disk, summary>>

(* concurrency.rs lines 83-87: semaphore.try_acquire_owned().              *)
UpstreamTryAcquire(r) ==
    /\ reqs[r].pc = "upstream_acquire"
    /\ LET g == StateIndex(r)
           req == Evaluated(Touch(r, reqs[r]), "upstream")
           ctl == Unwrap(states[g].concurrency)
           key == Unwrap(reqs[r].sem)
           available == ctl.upstream_semaphores[key]
       IN  IF try_acquire(available)
           THEN /\ states' = [states EXCEPT ![g].concurrency =
                       Some([ctl EXCEPT !.upstream_semaphores[key] = available - 1])]
                /\ reqs' = [reqs EXCEPT ![r] = [req EXCEPT !.up = TRUE, !.pc = "inflight"]]
           ELSE /\ reqs' = [reqs EXCEPT ![r] =
                       Finalize(req, Response(503, "upstream_concurrency_exceeded",
                                              "concurrency"))]
                /\ UNCHANGED states
    /\ UNCHANGED <<now, runtime, admin, rl, rlTask, rlLog, body, call, disk, summary>>

(* Lines 597-599: metrics.inc_inflight(route.id).                          *)
IncInflight(r) ==
    /\ reqs[r].pc = "inflight"
    /\ LET g == StateIndex(r)
           id == RouteOf(r).id
       IN  /\ states' = IF states[g].config.metrics
                        THEN [states EXCEPT ![g].inflight[id] = @ + 1]
                        ELSE states
           /\ reqs' = [reqs EXCEPT ![r] = [Touch(r, reqs[r]) EXCEPT !.pc = "sending"]]
    /\ UNCHANGED <<now, runtime, admin, rl, rlTask, rlLog, body, call, disk, summary>>

(* error_response that tests is_connect before is_timeout.                 *)
error_response_connect_first(error) ==
    IF error.kind = "Timeout" THEN Response(504, "upstream_timeout", "upstream_error")
    ELSE IF error.is_connect THEN Response(502, "upstream_connect_error", "upstream_error")
    ELSE IF error.is_timeout THEN Response(504, "upstream_timeout", "upstream_error")
    ELSE Response(502, "upstream_request_failed", "upstream_error")

(* error_response, lines 987-1000.                                         *)
error_response(error) ==
    IF error.kind = "Timeout" THEN Response(504, "upstream_timeout", "upstream_error")
    ELSE IF error.is_timeout THEN Response(504, "upstream_timeout", "upstream_error")
    ELSE IF error.is_connect THEN Response(502, "upstream_connect_error", "upstream_error")
    ELSE Response(502, "upstream_request_failed", "upstream_error")

UpstreamErrors ==
    {[kind |-> "Timeout", is_connect |-> FALSE, is_timeout |-> FALSE]} \cup
    {[kind |-> "Request", is_connect |-> c, is_timeout |-> t] : c, t \in BOOLEAN}

(* Lines 644-663: forward_to_upstream returned Err.                        *)
SendFailed(r, error) ==
    /\ reqs[r].pc = "sending"
    /\ LET g == StateIndex(r)
           id == RouteOf(r).id
           req == [Evaluated(Touch(r, reqs[r]), "forward") EXCEPT !.error = Some(error)]
       IN  /\ states' = IF states[g].config.metrics
                        THEN [states EXCEPT ![g].inflight[id] = @ - 1]
                        ELSE states
           /\ reqs' = [reqs EXCEPT ![r] = Finalize(req, error_response(error))]
    /\ UNCHANGED <<now, runtime, admin, rl, rlTask, rlLog, body, call, disk, summary>>

(* Lines 612-643: upstream headers arrived; the permits and the completion *)
(* guard move into the response body stream.                                *)
SendSucceeded(r, is_sse) ==
    /\ reqs[r].pc = "sending"
    /\ LET g == StateIndex(r)
           id == RouteOf(r).id
           req == Evaluated(Touch(r, reqs[r]), "forward")
       IN  /\ states' = IF states[g].config.metrics /\ is_sse
                        THEN [states EXCEPT ![g].sse_inflight[id] = @ + 1]
                        ELSE states
           /\ reqs' = [reqs EXCEPT ![r] =
                  [req EXCEPT !.is_sse = is_sse, !.pc = "streaming",
                              !.resp = Response(200, "", "success")]]
    /\ UNCHANGED <<now, runtime, admin, rl, rlTask, rlLog, body, call, disk, summary>>

(* The ways a response body stream comes to its end: the upstream ended it, *)
(* it yielded an error (an upstream error, or the deadline error of a       *)
(* stream that is not SSE), or the downstream dropped it.                   *)
Endings(is_sse) == {"ended", "errored", "dropped"} \cup (IF is_sse THEN {} ELSE {"timed_out"})

BodyEnds(r, how) ==
    /\ reqs[r].pc = "streaming"
    /\ how \in Endings(reqs[r].is_sse)
    /\ reqs' = [reqs EXCEPT ![r] = [reqs[r] EXCEPT !.pc = "dropping"]]
    /\ UNCHANGED <<now, runtime, states, admin, rl, rlTask, rlLog, body, call, disk, summary>>

(* A downstream permit whose drop returns nothing.                         *)
release_downstream_leak(ctl) == ctl

(* OwnedSemaphorePermit::drop adds the permit back.                        *)
release_downstream(ctl) ==
    [ctl EXCEPT !.downstream_semaphore = Some(Unwrap(@) + 1)]

release_upstream(ctl, key) ==
    [ctl EXCEPT !.upstream_semaphores[key] = @ + 1]

(* Return from proxy_handler on a rejection or a failure: the locals are   *)
(* dropped in reverse order of declaration, upstream_permit first.          *)
Unwind(r) ==
    /\ reqs[r].pc = "unwind"
    /\ LET g == StateIndex(r)
           req == Touch(r, reqs[r])
           ctl == Unwrap(states[g].concurrency)
       IN  IF req.up
           THEN /\ states' = [states EXCEPT ![g].concurrency =
                       Some(release_upstream(ctl, Unwrap(req.sem)))]
                /\ reqs' = [reqs EXCEPT ![r] =
                       IF req.down THEN [req EXCEPT !.up = FALSE]
                       ELSE Done([req EXCEPT !.up = FALSE])]
           ELSE /\ states' = [states EXCEPT ![g].concurrency = Some(release_downstream(ctl))]
                /\ reqs' = [reqs EXCEPT ![r] = Done([req EXCEPT !.down = FALSE])]
    /\ UNCHANGED <<now, runtime, admin, rl, rlTask, rlLog, body, call, disk, summary>>

(* Drop of the body stream, lines 891-924: the fields of ResponseGuards    *)
(* are dropped in order of declaration: downstream_permit, upstream_permit, *)
(* completion_guard.                                                        *)
DropGuards(r) ==
    /\ reqs[r].pc = "dropping"
    /\ LET g == StateIndex(r)
           id == RouteOf(r).id
           req == Touch(r, reqs[r])
           ctl == Unwrap(states[g].concurrency)
       IN  IF req.down
           THEN /\ states' = [states EXCEPT ![g].concurrency = Some(release_downstream(ctl))]
                /\ reqs' = [reqs EXCEPT ![r] = [req EXCEPT !.down = FALSE]]
           ELSE IF req.up
           THEN /\ states' = [states EXCEPT ![g].concurrency =
                       Some(release_upstream(ctl, Unwrap(req.sem)))]
                /\ reqs' = [reqs EXCEPT ![r] = [req EXCEPT !.up = FALSE]]
           ELSE /\ states' = IF states[g].config.metrics
                             THEN [states EXCEPT
                                      ![g].inflight[id] = @ - 1,
                                      ![g].sse_inflight[id] = IF req.is_sse THEN @ - 1 ELSE @]
                             ELSE states
                /\ reqs' = [reqs EXCEPT ![r] = Done([req EXCEPT !.observed = @ + 1,
                                                               !.observed_as = ObservedAs(req)])]
    /\ UNCHANGED <<now, runtime, admin, rl, rlTask, rlLog, body, call, disk, summary>>

-----------------------------------------------------------------------------
(* Admin surface, src/src/admin.rs.                                        *)

(* The header is the token of an Authorization: Bearer header, if any.     *)
is_admin_authorized(expected_token, header) ==
    IF expected_token = None THEN FALSE
    ELSE IF header = None THEN FALSE
    ELSE Unwrap(header) = Unwrap(expected_token)

PutBodies == {None} \cup {Some(config) : config \in PutConfigs}

(* A config apply that stores what it parsed without validating it.        *)
admin_config_apply_unvalidated(expected_token, header, put_body, epoch_seconds) ==
    IF ~is_admin_authorized(expected_token, header)
    THEN [status |-> 401, code |-> "unauthorized", store |-> None]
    ELSE IF put_body = None
    THEN [status |-> 400, code |-> "invalid_json", store |-> None]
    ELSE LET new_runtime == build_runtime_state(Unwrap(put_body), epoch_seconds)
         IN  IF new_runtime = None
             THEN [status |-> 500, code |-> "runtime_build_error", store |-> None]
             ELSE [status |-> 200, code |-> "", store |-> new_runtime]

(* admin_config_apply_handler: the status and error code of the response   *)
(* and the runtime state to store, if any.  A body that serde_json cannot  *)
(* parse is None.                                                           *)
admin_config_apply(expected_token, header, put_body, epoch_seconds) ==
    IF ~is_admin_authorized(expected_token, header)
    THEN [status |-> 401, code |-> "unauthorized", store |-> None]
    ELSE IF put_body = None
    THEN [status |-> 400, code |-> "invalid_json", store |-> None]
    ELSE IF ~validate(Unwrap(put_body))
    THEN [status |-> 400, code |-> "validation_error", store |-> None]
    ELSE LET new_runtime == build_runtime_state(Unwrap(put_body), epoch_seconds)
         IN  IF new_runtime = None
             THEN [status |-> 500, code |-> "runtime_build_error", store |-> None]
             ELSE [status |-> 200, code |-> "", store |-> new_runtime]

(* A config apply that rebuilds the published runtime state in place.      *)
AdminPut_in_place(header, put_body) ==
    /\ LET out == admin_config_apply(admin.token, header, put_body, now)
       IN  /\ admin' = [admin EXCEPT !.status = out.status, !.code = out.code,
                                     !.stored = IsSome(out.store)]
           /\ IF IsSome(out.store)
              THEN states' = [states EXCEPT ![runtime] = Unwrap(out.store)]
              ELSE UNCHANGED states
    /\ UNCHANGED <<now, runtime, reqs, rl, rlTask, rlLog, body, call, disk, summary>>

(* A config apply whose new runtime state goes on with the limiter and the *)
(* semaphores of the state it replaces.                                     *)
AdminPut_shared_limits(header, put_body) ==
    /\ LET out == admin_config_apply(admin.token, header, put_body, now)
       IN  /\ IsSome(out.store) => Len(states) <= MaxPuts
           /\ admin' = [admin EXCEPT !.status = out.status, !.code = out.code,
                                     !.stored = IsSome(out.store)]
           /\ IF IsSome(out.store)
              THEN /\ states' = Append(states,
                          [Unwrap(out.store) EXCEPT
                              !.rate_limiter = states[runtime].rate_limiter,
                              !.concurrency = states[runtime].concurrency])
                   /\ runtime' = Len(states) + 1
              ELSE UNCHANGED <<states, runtime>>
    /\ UNCHANGED <<now, reqs, rl, rlTask, rlLog, body, call, disk, summary>>

AdminPut(header, put_body) ==
    /\ LET out == admin_config_apply(admin.token, header, put_body, now)
       IN  /\ IsSome(out.store) => Len(states) <= MaxPuts
           /\ admin' = [admin EXCEPT !.status = out.status, !.code = out.code,
                                     !.stored = IsSome(out.store)]
           /\ IF IsSome(out.store)
              THEN /\ states' = Append(states, Unwrap(out.store))
                   /\ runtime' = Len(states) + 1
              ELSE UNCHANGED <<states, runtime>>
    /\ UNCHANGED <<now, reqs, rl, rlTask, rlLog, body, call, disk, summary>>

Tick ==
    /\ now < MaxSecond
    /\ now' = now + 1
    /\ UNCHANGED <<runtime, states, reqs, admin, rl, rlTask, rlLog, body, call, disk, summary>>

Arrival ==
    \E r \in Slots, path \in Paths, shape \in RequestShapes, candidate \in Candidates :
        Receive(r, path, shape.method, shape.origin, shape.acrm, candidate)

Handling ==
    \/ \E r \in Slots : RateCheck(r)
    \/ \E r \in Slots : AcquireDownstream(r)
    \/ \E r \in Slots : BuildUpstream(r)
    \/ \E r \in Slots : UpstreamLock(r)
    \/ \E r \in Slots : UpstreamTryAcquire(r)
    \/ \E r \in Slots : IncInflight(r)
    \/ \E r \in Slots, error \in UpstreamErrors : SendFailed(r, error)
    \/ \E r \in Slots, is_sse \in BOOLEAN : SendSucceeded(r, is_sse)
    \/ \E r \in Slots, how \in {"ended", "errored", "dropped", "timed_out"} : BodyEnds(r, how)
    \/ \E r \in Slots : Unwind(r)
    \/ \E r \in Slots : DropGuards(r)

Next ==
    \/ Arrival
    \/ Handling
    \/ Tick

Spec == Init /\ [][Next]_vars

(* The gateway with its admin surface: requests and config PUTs.           *)
InitAdmin ==
    /\ Started({CfgOne}, {None, Some(AdminToken)})
    /\ rl = None
    /\ rlTask = <<>>
    /\ rlLog = <<>>
    /\ body = None
    /\ call = None
    /\ disk = None
    /\ summary = None

(* Authorized requests for route a arrive while configs are PUT.           *)
ArrivalAdmin ==
    \E r \in Slots : Receive(r, <<"/", "a", "/", "x">>, "GET", None, FALSE, Some("gw1"))

NextAdmin ==
    \/ ArrivalAdmin
    \/ Handling
    \/ \E header \in AdminHeaders, put_body \in PutBodies : AdminPut(header, put_body)

SpecAdmin == InitAdmin /\ [][NextAdmin]_vars

-----------------------------------------------------------------------------
(* The rate limiter under concurrent callers, src/src/ratelimit.rs.        *)
(* RateLimiter::check reads the clock and then calls                        *)
(* check_at_epoch_seconds, which takes the lock: a caller can be overtaken *)
(* between the two.                                                         *)
(* The pairs checked: route ids of the config, one of them with a line     *)
(* feed in it, and tokens taken from request headers, which hold none.     *)
RatePairs == { <<"a", "gw1">>, <<"a", "gw2">>, <<"b", "gw1">>, <<"a\nb", "gw1">> }
PerMinutes == {1, 2}
IdleChecker == [pc |-> "idle", route_id |-> "", token |-> "", stamp |-> 0]

InitRate ==
    /\ now = StartSecond
    /\ runtime = 1
    /\ states = <<>>
    /\ reqs = [r \in Slots |-> IdleReq]
    /\ admin = [token |-> None, status |-> 0, code |-> "", stored |-> FALSE]
    /\ \E per_minute \in PerMinutes : rl = Some(RateLimiterNew(per_minute, StartSecond))
    /\ rlTask = [t \in Checkers |-> IdleChecker]
    /\ rlLog = <<>>
    /\ body = None
    /\ call = None
    /\ disk = None
    /\ summary = None

Pending == {t \in Checkers : rlTask[t].pc = "stamped"}

(* check, line 32: current_epoch_seconds() is evaluated for the call.      *)
ReadClock(t, route_id, token) ==
    /\ rlTask[t].pc = "idle"
    /\ Len(rlLog) + Cardinality(Pending) < MaxChecks
    /\ rlTask' = [rlTask EXCEPT ![t] =
           [pc |-> "stamped", route_id |-> route_id, token |-> token, stamp |-> now]]
    /\ UNCHANGED <<now, runtime, states, reqs, admin, rl, rlLog, body, call, disk, summary>>

(* check_at_epoch_seconds under the lock, and the response proxy_handler   *)
(* makes of the decision (server.rs lines 453-480).                         *)
LockedCheck(t) ==
    /\ rlTask[t].pc = "stamped"
    /\ LET res == check_at_epoch_seconds(Unwrap(rl), rlTask[t].token, rlTask[t].route_id,
                                         rlTask[t].stamp)
       IN  /\ rl' = Some(res.limiter)
           /\ rlLog' = Append(rlLog,
                  [route_id |-> rlTask[t].route_id, token |-> rlTask[t].token,
                   stamp |-> rlTask[t].stamp, allowed |-> res.allowed,
                   resp |-> IF res.allowed THEN NoResponse
                            ELSE Response(429, "rate_limited", "rate_limited"),
                   retry_after |-> res.retry_after_secs])
    /\ rlTask' = [rlTask EXCEPT ![t] = IdleChecker]
    /\ UNCHANGED <<now, runtime, states, reqs, admin, body, call, disk, summary>>

NextRate ==
    \/ \E t \in Checkers, pair \in RatePairs : ReadClock(t, pair[1], pair[2])
    \/ \E t \in Checkers : LockedCheck(t)
    \/ Tick

SpecRate == InitRate /\ [][NextRate]_vars

-----------------------------------------------------------------------------
(* One forwarded request from the upstream send to the drop of its body    *)
(* stream, on a clock: forward_to_upstream, response_from_upstream and     *)
(* enforce_response_deadline, src/src/server.rs.                            *)
RequestTimeouts == {1, 2}
DeadlineKey == <<"a", 2>>

(* The request holds both permits of semaphores with one permit each and  *)
(* is counted by the in-flight gauge of its route (server.rs lines         *)
(* 597-599); metrics are enabled.                                           *)
InitDeadline ==
    /\ now = StartSecond
    /\ runtime = 1
    /\ states = <<>>
    /\ reqs = [r \in Slots |-> IdleReq]
    /\ admin = [token |-> None, status |-> 0, code |-> "", stored |-> FALSE]
    /\ rl = None
    /\ rlTask = <<>>
    /\ rlLog = <<>>
    /\ call = None
    /\ disk = None
    /\ summary = None
    /\ \E request_timeout_ms \in RequestTimeouts :
          body = Some([phase |-> "admitted", request_timeout_ms |-> request_timeout_ms,
                       clock |-> 0, send_start |-> 0, deadline |-> 0,
                       content_type |-> None, is_sse |-> FALSE,
                       timer |-> None, items |-> <<>>, resp |-> NoResponse,
                       down |-> TRUE, up |-> TRUE,
                       inflight |-> 1, sse_inflight |-> 0, observed |-> 0,
                       ended_by |-> "", guard |-> None, recorded |-> None,
                       ctl |-> [downstream_semaphore |-> Some(0),
                                upstream_default_limit |-> Some(1),
                                upstream_semaphores |-> (DeadlineKey :> 0)]])

Body == Unwrap(body)
OnlyBody == UNCHANGED <<now, runtime, states, reqs, admin, rl, rlTask, rlLog, call, disk, summary>>

(* Lines 810-811: deadline = Instant::now() + request_timeout.             *)
StartSend ==
    /\ Body.phase = "admitted"
    /\ body' = Some([Body EXCEPT !.phase = "sending", !.send_start = Body.clock,
                                 !.deadline = Body.clock + Body.request_timeout_ms,
                                 !.timer = Some(Body.clock + Body.request_timeout_ms)])
    /\ OnlyBody

(* A stream that is read without a deadline.                               *)
read_timer_none(is_sse, deadline) == None

(* response_from_upstream, lines 945-949: the body stream of a response    *)
(* that is not SSE is wrapped by enforce_response_deadline.                 *)
read_timer(is_sse, deadline) == IF is_sse THEN None ELSE Some(deadline)

(* tokio::time::timeout_at: the timer is due once its deadline is reached. *)
timer_due(timer, clock) == IsSome(timer) /\ clock >= Unwrap(timer)

(* A Content-Type value is the sequence of its pieces: words, ";" and " ". *)
(* HeaderValue::to_str fails on a byte that is not visible ASCII.          *)
to_str_ok(value) == \A i \in 1..Len(value) : value[i] \notin NotVisibleAscii

(* value.split(';').next()                                                 *)
RECURSIVE before_semicolon(_)
before_semicolon(value) ==
    IF value = <<>> \/ Head(value) = ";" THEN <<>>
    ELSE <<Head(value)>> \o before_semicolon(Tail(value))

(* str::trim                                                               *)
RECURSIVE trim_start(_)
trim_start(value) ==
    IF value /= <<>> /\ Head(value) = " " THEN trim_start(Tail(value)) ELSE value
RECURSIVE trim_end(_)
trim_end(value) ==
    IF value /= <<>> /\ value[Len(value)] = " "
    THEN trim_end(SubSeq(value, 1, Len(value) - 1)) ELSE value
trim(value) == trim_end(trim_start(value))

(* is_sse_response that compares the whole header value.                   *)
is_sse_response_whole_value(content_type) ==
    IF content_type = None THEN FALSE
    ELSE IF ~to_str_ok(Unwrap(content_type)) THEN FALSE
    ELSE LET media_type == trim(Unwrap(content_type))
         IN  Len(media_type) = 1 /\ AsciiLower(media_type[1]) = "text/event-stream"

(* is_sse_response, lines 1244-1251.                                       *)
is_sse_response(content_type) ==
    IF content_type = None THEN FALSE
    ELSE IF ~to_str_ok(Unwrap(content_type)) THEN FALSE
    ELSE LET media_type == trim(before_semicolon(Unwrap(content_type)))
         IN  Len(media_type) = 1 /\ AsciiLower(media_type[1]) = "text/event-stream"

ContentTypes ==
    { None,
      Some(<<"text/event-stream">>),
      Some(<<"TEXT/Event-Stream", " ", ";", " ", "charset=utf-8">>),
      Some(<<"application/json">>),
      Some(<<"application/json", ";", "text/event-stream">>),
      Some(<<"text/event-stream2">>),
      Some(<<"text/event-stream", " ", "x">>),
      Some(<<"text/event-stream", ";", "<0xff>">>) }

(* The statuses an upstream answers with.                                  *)
UpstreamStatuses == {200, 404, 500}

(* Lines 812-822, 852-856 and 612-643: the upstream answered with headers, *)
(* whatever its status; the completion guard is built with outcome         *)
(* "success" and the status of the response.                               *)
HeadersArrive(content_type, status) ==
    /\ Body.phase = "sending"
    /\ body' = Some([Body EXCEPT !.phase = "streaming", !.content_type = content_type,
                                 !.is_sse = is_sse_response(content_type), !.timer = None,
                                 !.sse_inflight =
                                     IF is_sse_response(content_type) THEN @ + 1 ELSE @,
                                 !.guard = Some([outcome |-> "success", status |-> status]),
                                 !.resp = Response(status, "", "success")])
    /\ OnlyBody

(* What finalize_observed_proxy_response records for a response.           *)
observed_response(response, outcome) == [outcome |-> outcome, status |-> response.status]

release_all(b) ==
    [b EXCEPT !.down = FALSE, !.up = FALSE,
              !.ctl = release_downstream(release_upstream(b.ctl, DeadlineKey))]

(* Lines 841-850 and 644-663: the send timed out; 504 and the permits go   *)
(* back on return.                                                          *)
SendTimesOut ==
    /\ Body.phase = "sending"
    /\ timer_due(Body.timer, Body.clock)
    /\ body' = Some([release_all(Body) EXCEPT
                        !.phase = "failed", !.timer = None,
                        !.inflight = @ - 1, !.observed = @ + 1,
                        !.recorded = Some(observed_response(
                            error_response([kind |-> "Timeout", is_connect |-> FALSE,
                                            is_timeout |-> FALSE]), "upstream_error")),
                        !.resp = error_response([kind |-> "Timeout", is_connect |-> FALSE,
                                                 is_timeout |-> FALSE])])
    /\ OnlyBody

(* Lines 824-840 and 644-663: the send failed with an error of the client; *)
(* the error response is observed as upstream_error and the permits go     *)
(* back on return.                                                          *)
SendFails(error) ==
    /\ Body.phase = "sending"
    /\ error.kind = "Request"
    /\ body' = Some([release_all(Body) EXCEPT
                        !.phase = "failed", !.timer = None,
                        !.inflight = @ - 1, !.observed = @ + 1,
                        !.recorded = Some(observed_response(error_response(error),
                                                            "upstream_error")),
                        !.resp = error_response(error)])
    /\ OnlyBody

(* The server polls the body stream: enforce_response_deadline awaits      *)
(* timeout_at(deadline, stream.try_next()), lines 1260.                     *)
PollBody ==
    /\ Body.phase = "streaming"
    /\ body' = Some([Body EXCEPT !.phase = "reading",
                                 !.timer = read_timer(Body.is_sse, Body.deadline)])
    /\ OnlyBody

(* Line 1261: Ok(Ok(Some(chunk))).                                         *)
ChunkArrives ==
    /\ Body.phase = "reading"
    /\ Len(Body.items) < MaxChunks
    /\ body' = Some([Body EXCEPT !.phase = "streaming", !.timer = None,
                                 !.items = Append(@, "chunk")])
    /\ OnlyBody

(* Line 1262: Ok(Ok(None)), the stream ends.                               *)
BodyCompletes ==
    /\ Body.phase = "reading"
    /\ body' = Some([Body EXCEPT !.phase = "ended", !.timer = None])
    /\ OnlyBody

(* Line 1263: Ok(Err(error)), an error of the upstream body.               *)
UpstreamBodyFails ==
    /\ Body.phase = "reading"
    /\ body' = Some([Body EXCEPT !.phase = "errored", !.timer = None,
                                 !.items = Append(@, "Other")])
    /\ OnlyBody

(* Lines 1264-1270: Err(Elapsed) becomes io::ErrorKind::TimedOut.          *)
DeadlineElapses ==
    /\ Body.phase = "reading"
    /\ timer_due(Body.timer, Body.clock)
    /\ body' = Some([Body EXCEPT !.phase = "errored", !.timer = None,
                                 !.items = Append(@, "TimedOut")])
    /\ OnlyBody

(* The downstream goes away while the response streams.                    *)
ClientDisconnects ==
    /\ Body.phase \in {"streaming", "reading"}
    /\ body' = Some([Body EXCEPT !.phase = "abandoned", !.timer = None])
    /\ OnlyBody

(* A completion guard that leaves the SSE gauge alone.                     *)
drop_completion_guard_untracked_sse(b) ==
    [b EXCEPT !.inflight = @ - 1, !.observed = @ + 1, !.recorded = b.guard]

(* A completion guard that records how the body came to its end.          *)
drop_completion_guard_by_ending(b) ==
    [b EXCEPT !.inflight = @ - 1,
              !.sse_inflight = IF b.is_sse THEN @ - 1 ELSE @,
              !.observed = @ + 1,
              !.recorded = IF b.phase = "ended" THEN b.guard
                           ELSE Some([outcome |-> "upstream_error",
                                      status |-> Unwrap(b.guard).status])]

(* impl Drop for ResponseCompletionGuard, lines 891-917: track_inflight is *)
(* set with metrics, track_sse for an SSE response; the completion is      *)
(* observed and logged with the outcome and the status the guard was       *)
(* built with.                                                              *)
drop_completion_guard(b) ==
    [b EXCEPT !.inflight = @ - 1,
              !.sse_inflight = IF b.is_sse THEN @ - 1 ELSE @,
              !.observed = @ + 1,
              !.recorded = b.guard]

(* The server drops a body stream that ended, yielded an error or lost its *)
(* reader; ResponseGuards, lines 919-924, go with it.                       *)
DropBody ==
    /\ Body.phase \in {"ended", "errored", "abandoned"}
    /\ body' = Some([drop_completion_guard(release_all(Body)) EXCEPT
                        !.phase = "dropped", !.ended_by = Body.phase])
    /\ OnlyBody

(* Time passes unless a timer that is awaited is due.                      *)
ClockTick ==
    /\ Body.clock < MaxClock
    /\ Body.phase \notin {"failed", "dropped"}
    /\ ~timer_due(Body.timer, Body.clock)
    /\ body' = Some([Body EXCEPT !.clock = @ + 1])
    /\ OnlyBody

NextDeadline ==
    \/ StartSend
    \/ \E content_type \in ContentTypes, status \in UpstreamStatuses :
          HeadersArrive(content_type, status)
    \/ SendTimesOut
    \/ \E error \in UpstreamErrors : SendFails(error)
    \/ PollBody
    \/ ChunkArrives
    \/ BodyCompletes
    \/ UpstreamBodyFails
    \/ DeadlineElapses
    \/ ClientDisconnects
    \/ DropBody
    \/ ClockTick

SpecDeadline == InitDeadline /\ [][NextDeadline]_vars

-----------------------------------------------------------------------------
(* The functions of the gateway that compute on strings, headers and       *)
(* configurations.  A string is the sequence of its characters.            *)

IdleElsewhere ==
    /\ now = StartSecond
    /\ runtime = 1
    /\ states = <<>>
    /\ reqs = [r \in Slots |-> IdleReq]
    /\ admin = [token |-> None, status |-> 0, code |-> "", stored |-> FALSE]
    /\ rl = None
    /\ rlTask = <<>>
    /\ rlLog = <<>>
    /\ body = None

InitCalls == IdleElsewhere /\ call = None /\ disk = None /\ summary = None

Called(fn, args, result) ==
    /\ call = None
    /\ call' = Some([fn |-> fn, args |-> args, result |-> result])
    /\ UNCHANGED <<now, runtime, states, reqs, admin, rl, rlTask, rlLog, body, disk, summary>>

(* The caller has consumed the result.                                      *)
Return ==
    /\ call /= None
    /\ call' = None
    /\ UNCHANGED <<now, runtime, states, reqs, admin, rl, rlTask, rlLog, body, disk, summary>>

(* chars().take(n) and chars().rev().take(n)...rev()                        *)
take(s, n) == SubSeq(s, 1, IF Len(s) < n THEN Len(s) ELSE n)
take_last(s, n) == SubSeq(s, (IF Len(s) < n THEN 1 ELSE Len(s) - n + 1), Len(s))

(* The gateway tokens of a configuration; validate, config.rs lines        *)
(* 277-292, accepts a token unless it is empty after trimming.              *)
TokenStrings ==
    { <<>>, <<" ">>, <<"k">>, <<"a", "b", "c">>, <<"a", "b", "c", "d">>,
      <<" ", "a", "b", "c", "d", "e", " ">>,
      <<"s", "k", "-", "1", "2", "3", "4">>,
      <<"s", "k", "-", "9", "9", "3", "4">> }
validate_token(token) == trim(token) /= <<>>

(* hasher.finish() as u32 formatted {:08x}: the algorithm of DefaultHasher *)
(* is unspecified, the value is any 32-bit number.                          *)
ShortHashes ==
    { <<"0", "0", "0", "0", "0", "0", "0", "0">>,
      <<"9", "f", "1", "d", "2", "e", "7", "7">>,
      <<"0", "a", "b", "c", "d", "e", "f", "1">> }

(* token_label, observability.rs lines 607-629.                             *)
token_label(token, short_hash) ==
    LET trimmed == trim(token)
        prefix == take(trimmed, 3)
        suffix == take_last(trimmed, 2)
    IN  IF trimmed = <<>> THEN <<"*", "*", "*", "#">> \o short_hash
        ELSE IF Len(trimmed) <= 5 THEN prefix \o <<"*", "*", "*", "#">> \o short_hash
        ELSE prefix \o <<"*", "*", "*">> \o suffix \o <<"#">> \o short_hash

(* server.rs line 451: the label of the authorized token is what the       *)
(* observations of the request carry.                                       *)
LabelToken(token, short_hash) ==
    /\ validate_token(token)
    /\ Called("token_label", <<token>>, token_label(token, short_hash))

(* Token extraction, src/src/auth.rs.  A header value is the sequence of   *)
(* its pieces, words and single spaces; the request headers are a function *)
(* from lower-case header names to the value received, if any.              *)

(* value.split_once(' '): the pieces before and after the first space.     *)
split_once_space(value) ==
    LET spaces == {i \in 1..Len(value) : value[i] = " "}
    IN  IF spaces = {} THEN None
        ELSE LET first == CHOOSE i \in spaces : \A j \in spaces : i <= j
             IN  Some(<<SubSeq(value, 1, first - 1), SubSeq(value, first + 1, Len(value))>>)

(* auth.rs parse_bearer_token, lines 48-61.                                 *)
bearer_token_of(value) ==
    LET parts == split_once_space(trim(value))
    IN  IF parts = None THEN None
        ELSE LET scheme == Unwrap(parts)[1]
                 token == trim(Unwrap(parts)[2])
             IN  IF ~(Len(scheme) = 1 /\ AsciiLower(scheme[1]) = "bearer") THEN None
                 ELSE IF token = <<>> THEN None
                 ELSE Some(token)

AuthorizationBearer == [type |-> "authorization_bearer", name |-> ""]
HeaderSource(name) == [type |-> "header", name |-> name]

(* One iteration of the loop of extract_token, lines 7-25.                  *)
token_of_source(headers, source) ==
    IF source.type = "authorization_bearer"
    THEN IF IsSome(headers["authorization"]) /\ to_str_ok(Unwrap(headers["authorization"]))
         THEN bearer_token_of(Unwrap(headers["authorization"]))
         ELSE None
    ELSE IF /\ ValidHeaderName(source.name)
            /\ AsciiLower(source.name) \in DOMAIN headers
            /\ IsSome(headers[AsciiLower(source.name)])
            /\ to_str_ok(Unwrap(headers[AsciiLower(source.name)]))
            /\ trim(Unwrap(headers[AsciiLower(source.name)])) /= <<>>
         THEN Some(trim(Unwrap(headers[AsciiLower(source.name)])))
         ELSE None

(* extract_token in which a later source overrides an earlier one.          *)
RECURSIVE extract_token_last_wins(_, _)
extract_token_last_wins(headers, token_sources) ==
    IF token_sources = <<>> THEN None
    ELSE LET found == token_of_source(headers, token_sources[Len(token_sources)])
         IN  IF IsSome(found) THEN found
             ELSE extract_token_last_wins(headers,
                      SubSeq(token_sources, 1, Len(token_sources) - 1))

(* extract_token, lines 5-29.                                               *)
RECURSIVE extract_token(_, _)
extract_token(headers, token_sources) ==
    IF token_sources = <<>> THEN None
    ELSE LET found == token_of_source(headers, Head(token_sources))
         IN  IF IsSome(found) THEN found
             ELSE extract_token(headers, Tail(token_sources))

AuthorizationValues ==
    { None,
      Some(<<"Bearer", " ", "gw1">>),
      Some(<<" ", "BEARER", " ", " ", "gw1", " ">>),
      Some(<<"bearer", " ", "GW1">>),
      Some(<<"Bearer", " ", "bad">>),
      Some(<<"Bearer", " ", "gw1", " ", "x">>),
      Some(<<"Basic", " ", "gw1">>),
      Some(<<"Bearer", " ">>),
      Some(<<"gw1">>),
      Some(<<"Bearer", " ", "gw1", "<0xff>">>) }
ApiKeyValues ==
    { None, Some(<<"gw2">>), Some(<<" ", "gw2", " ">>), Some(<<"bad">>), Some(<<" ">>),
      Some(<<>>), Some(<<"gw1">>) }
RequestHeaders ==
    { ("authorization" :> a) @@ ("x-api-key" :> k) :
          a \in AuthorizationValues, k \in ApiKeyValues }
TokenSources ==
    { <<AuthorizationBearer>>,
      <<HeaderSource("X-Api-Key")>>,
      <<AuthorizationBearer, HeaderSource("X-Api-Key")>>,
      <<HeaderSource("X-Api-Key"), AuthorizationBearer>>,
      <<HeaderSource("bad name"), AuthorizationBearer>> }
AllowLists == { << <<"gw1">> >>, << <<"gw1">>, <<"gw2">> >> }
GatewayAuths ==
    { [tokens |-> tokens, token_sources |-> token_sources] :
          tokens \in AllowLists, token_sources \in TokenSources }

(* extract_authorized_token, lines 35-46, on the headers of a request.      *)
Authorize(headers, gateway_auth) ==
    Called("extract_authorized_token", <<headers, gateway_auth>>,
           extract_authorized_token(extract_token(headers, gateway_auth.token_sources),
                                    gateway_auth.tokens))

(* Route lookup, src/src/proxy.rs: request paths and route lists with      *)
(* pairwise distinct prefixes, as validate requires.                        *)
RequestPaths ==
    { <<"/">>, <<"/", "a">>, <<"/", "a", "2">>, <<"/", "a", "/", "x">>,
      <<"/", "a", "/", "v">>, <<"/", "a", "/", "v", "/", "m">>,
      <<"/", "a", "/", "v", "2">>, <<"/", "b">> }
RoutePrefixes == { <<"/">>, <<"/", "a">>, <<"/", "a", "/", "v">>, <<"/", "b">> }
MaxRoutes == 3
BareRoute(prefix) == [id |-> prefix, prefix |-> prefix]
RouteLists ==
    { routes \in UNION { [1..n -> {BareRoute(p) : p \in RoutePrefixes}] : n \in 0..MaxRoutes } :
          \A i, j \in 1..Len(routes) : i /= j => routes[i].prefix /= routes[j].prefix }

MatchRoute(path, routes) == Called("match_route", <<path, routes>>, match_route(path, routes))

(* Upstream request headers, src/src/proxy.rs: inbound header maps and     *)
(* header policies of a route.                                              *)
InboundNames == {"host", "connection", "authorization", "x-forwarded-for", "x-trace"}
InboundMaps ==
    UNION { { [n \in names |-> << <<"in">> >>],
              [n \in names |-> IF n = "x-trace" THEN << <<"in">>, <<"in2">> >>
                               ELSE << <<"in">> >>] } : names \in SUBSET InboundNames }
RemoveLists == { <<>>, <<"X-Trace">>, <<"Authorization", "x-trace">>, <<"bad name">> }
InjectLists ==
    { <<>>,
      <<Inject("Authorization", <<"Bearer", "up">>)>>,
      <<Inject("authorization", <<"k1">>), Inject("Authorization", <<"k2">>)>>,
      <<Inject("Connection", <<"x">>)>>,
      <<Inject("X-Forwarded-For", <<"10.0.0.1">>)>>,
      <<Inject("X-Trace", <<"t">>), Inject("Host", <<"h">>)>>,
      <<Inject("X-Trace", <<"t">>), Inject("bad name", <<"v">>)>>,
      <<Inject("X-Trace", <<"<0x0a>">>)>> }
HeaderPolicies ==
    { [Upstream(inject, None, None) EXCEPT !.remove_headers = remove, !.forward_xff = xff] :
          inject \in InjectLists, remove \in RemoveLists, xff \in BOOLEAN }

PrepareHeaders(inbound, upstream) ==
    Called("prepare_upstream_headers", <<inbound, upstream>>,
           prepare_upstream_headers(inbound, upstream))

(* Request ids, src/src/observability.rs.  An id is the sequence of its    *)
(* characters.                                                               *)
REQUEST_ID_HEADER == "x-request-id"
MaxRequestIdLen == 128
(* The characters of the inputs for which char::is_ascii_alphanumeric holds. *)
AsciiAlphanumeric == {"a", "e", "q", "r", "u", "p", "A", "Z", "0", "1", "2", "7"}

(* is_valid_request_id, lines 844-851.                                      *)
is_valid_request_id(value) ==
    IF value = <<>> \/ Len(value) > MaxRequestIdLen THEN FALSE
    ELSE \A i \in 1..Len(value) : value[i] \in AsciiAlphanumeric \cup {"-", "_", "."}

(* extract_or_generate_request_id that keeps whatever the request sent.     *)
extract_or_generate_request_id_unchecked(headers, generated) ==
    IF /\ REQUEST_ID_HEADER \in DOMAIN headers
       /\ to_str_ok(headers[REQUEST_ID_HEADER][1])
       /\ trim(headers[REQUEST_ID_HEADER][1]) /= <<>>
    THEN trim(headers[REQUEST_ID_HEADER][1])
    ELSE generated

(* extract_or_generate_request_id, lines 631-639; `generated` is the value *)
(* of uuid::Uuid::now_v7().to_string().                                      *)
extract_or_generate_request_id(headers, generated) ==
    IF /\ REQUEST_ID_HEADER \in DOMAIN headers
       /\ to_str_ok(headers[REQUEST_ID_HEADER][1])
       /\ is_valid_request_id(trim(headers[REQUEST_ID_HEADER][1]))
    THEN trim(headers[REQUEST_ID_HEADER][1])
    ELSE generated

(* insert_request_id_header, lines 641-645.                                 *)
insert_request_id_header(headers, request_id) ==
    IF ValidHeaderValue(request_id)
    THEN header_insert(headers, REQUEST_ID_HEADER, request_id)
    ELSE headers

(* sanitize_response_headers, proxy.rs lines 149-155.                       *)
sanitize_response_headers(upstream_headers) == remove_each(upstream_headers, HOP_BY_HOP_HEADERS)

Repeated(ch, n) == [i \in 1..n |-> ch]
InboundRequestIds ==
    { <<"r", "e", "q", "-", "1", ".", "2", "_", "A">>,
      <<" ", "r", "e", "q", "-", "1", " ">>,
      <<"r", "e", "q", " ", "1">>,
      <<"r", "e", "q", "/", "1">>,
      <<>>,
      <<" ">>,
      <<"r", "e", "q", "<0xff>">>,
      Repeated("a", MaxRequestIdLen),
      Repeated("a", MaxRequestIdLen + 1) }
RequestIdHeaders ==
    {NoHeaders} \cup { (REQUEST_ID_HEADER :> <<value>>) : value \in InboundRequestIds }
GeneratedIds ==
    { <<"0", "1", "9", "a", "-", "7", "e", "1">>, <<"0", "1", "9", "a", "-", "7", "e", "2">> }
UpstreamResponseHeaders ==
    { NoHeaders,
      (REQUEST_ID_HEADER :> << <<"u", "p", "-", "1">> >>),
      (REQUEST_ID_HEADER :> << <<"u", "p", "-", "1">>, <<"u", "p", "-", "2">> >>)
          @@ ("connection" :> << <<"close">> >>) }
(* The handlers that answer: healthz_handler, metrics_handler,             *)
(* metrics_ui_handler, metrics_summary_handler, and proxy_handler through  *)
(* finalize_observed_proxy_response or with the upstream's response.        *)
Responders ==
    {"healthz", "metrics", "metrics_ui", "metrics_summary", "proxy_rejection", "proxy_success"}

(* server.rs lines 107-168, 640-642 and 717-727: the headers of the        *)
(* response of a handler.                                                    *)
response_headers(responder, headers, upstream_headers, generated) ==
    LET request_id == extract_or_generate_request_id(headers, generated)
        response == IF responder = "proxy_success"
                    THEN sanitize_response_headers(upstream_headers)
                    ELSE IF responder \in {"healthz", "metrics", "metrics_ui"}
                    THEN ("content-type" :> << <<responder>> >>)
                    ELSE ("content-type" :> << <<"application/json">> >>)
    IN  insert_request_id_header(response, request_id)

Respond(responder, headers, upstream_headers, generated) ==
    Called("respond", <<responder, headers, upstream_headers, generated>>,
           response_headers(responder, headers, upstream_headers, generated))

(* A configuration is validated and the runtime state is built from it,    *)
(* config.rs lines 270-566 and server.rs lines 36-63.                       *)
BuildFromConfig(config) ==
    Called("build_runtime_state", <<config>>,
           [validated |-> validate(config),
            built |-> IsSome(build_runtime_state(config, StartSecond))])

(* Route prefixes that validate accepts, config.rs lines 312-327, the      *)
(* remainders of request paths below them, and the paths rewritten.        *)
AcceptedPrefixes == { <<"/">>, <<"/", "a">>, <<"/", "a", "/", "b">> }
Remainders == { <<>>, <<"x">>, <<"x", "/", "y">>, <<"/">>, <<"a">> }
RewrittenPaths ==
    AcceptedPrefixes \cup { prefix \o <<"/">> \o x : prefix \in AcceptedPrefixes, x \in Remainders }

RewritePath(path, prefix, strip_prefix) ==
    Called("rewrite_path", <<path, prefix, strip_prefix>>,
           rewrite_path(path, prefix, strip_prefix))

(* The metrics endpoints, observability.rs lines 78-86 and 830-842, and    *)
(* server.rs lines 119-136 and 154-168.                                     *)
extract_bearer_token(authorization) ==
    IF authorization = None \/ ~to_str_ok(Unwrap(authorization)) THEN None
    ELSE LET parts == split_once_space(trim(Unwrap(authorization)))
         IN  IF parts = None THEN None
             ELSE IF ~(Len(Unwrap(parts)[1]) = 1 /\ AsciiLower(Unwrap(parts)[1][1]) = "bearer")
             THEN None
             ELSE IF trim(Unwrap(parts)[2]) = <<>> THEN None
             ELSE Some(trim(Unwrap(parts)[2]))

is_metrics_request_authorized(metrics_token, authorization) ==
    IF metrics_token = None THEN FALSE
    ELSE extract_bearer_token(authorization) = Some(Text(Unwrap(metrics_token)))

(* ObservabilityRuntime::from_config, lines 46-63: the token of the        *)
(* runtime.                                                                  *)
metrics_token_of(config) == IF config.metrics THEN Some(config.metrics_token) ELSE None

(* metrics_handler and metrics_summary_handler: the status of the answer.  *)
metrics_status(config, authorization) ==
    IF ~is_metrics_request_authorized(metrics_token_of(config), authorization) THEN 401
    ELSE IF config.metrics THEN 200 ELSE 404

MetricsConfigs ==
    { [CfgOne EXCEPT !.metrics_token = token] : token \in {"mtk", "gw1", ""} }
MetricsAuthorizations ==
    AuthorizationValues \cup { Some(<<"Bearer", " ", "mtk">>), Some(<<"bearer", " ", " ", "mtk", " ">>),
                               Some(<<"mtk">>) }

MetricsRequest(endpoint, config, authorization) ==
    Called(endpoint, <<config, authorization>>,
           [validated |-> validate(config), status |-> metrics_status(config, authorization)])

(* Configs whose second route injects one of these lists, under the global *)
(* upstream per-key limit of CfgTwo or under a limit of the route alone.   *)
KeyInjections ==
    { << Inject("X-Api-Key", <<"k1">>) >>,
      << Inject("X-Api-Key", <<"k1">>), Inject("x-api-key", <<>>) >>,
      << Inject("X-Api-Key", <<>>), Inject("X-Api-Key", <<"k2">>) >>,
      << Inject("Authorization", <<"Bearer", "t1">>), Inject("X-Api-Key", <<"k1">>) >>,
      << Inject("X-Api-Key", <<"k1">>), Inject("Authorization", <<"Basic", "abc">>) >>,
      << Inject("Authorization", <<>>), Inject("X-Api-Key", <<"k1">>) >>,
      << Inject("Authorization", <<"Bearer", "t1">>), Inject("authorization", <<>>) >>,
      << Inject("Authorization", <<"t0">>), Inject("authorization", <<"BEARER", "t1">>) >>,
      << Inject("Authorization", <<"Bearer">>) >>,
      << Inject("X-Other", <<"v">>) >>,
      << >> }
KeyConfigs ==
    { [CfgTwo EXCEPT !.routes[2].upstream.inject_headers = inject,
                     !.routes[2].upstream.upstream_key_max_inflight = limit,
                     !.concurrency = Some([downstream_max_inflight |-> None,
                                           upstream_per_key_max_inflight |-> default])] :
        inject \in KeyInjections, limit \in {None, Some(1)}, default \in {None, Some(2)} }

(* config.rs validate and concurrency.rs acquire_upstream, lines 59-72, on *)
(* the second route of a config.                                            *)
DeriveUpstreamKey(config) ==
    Called("acquire_upstream", <<config>>,
           [validated |-> validate(config),
            limit |-> effective_limit(config.routes[2],
                          Unwrap(config.concurrency).upstream_per_key_max_inflight),
            key_material |-> key_material_of(config.routes[2])])

(* Route lists in which two routes have the same prefix: validate rejects  *)
(* them (config.rs lines 328-333), build_app and match_route take them.    *)
TiedRouteLists ==
    { << [id |-> "first", prefix |-> <<"/", "a">>], [id |-> "second", prefix |-> <<"/", "a">>] >>,
      << [id |-> "root", prefix |-> <<"/">>], [id |-> "first", prefix |-> <<"/", "a">>],
         [id |-> "second", prefix |-> <<"/", "a">>] >>,
      << [id |-> "first", prefix |-> <<"/", "a">>], [id |-> "long", prefix |-> <<"/", "a", "/", "v">>],
         [id |-> "second", prefix |-> <<"/", "a">>] >>,
      << [id |-> "first", prefix |-> <<"/">>], [id |-> "second", prefix |-> <<"/">>] >> }

(* forward_to_upstream, lines 812-853: the result label recorded for the   *)
(* upstream duration.  An outcome of the send is a response of the         *)
(* upstream, an error of the client or the elapsed deadline.               *)
upstream_result_label(outcome) ==
    IF outcome.kind = "Response" THEN "ok"
    ELSE IF outcome.kind = "Timeout" THEN "timeout"
    ELSE IF outcome.is_connect THEN "connect_error"
    ELSE IF outcome.is_timeout THEN "timeout"
    ELSE "request_error"

SendOutcomes ==
    UpstreamErrors \cup
    {[kind |-> "Response", is_connect |-> FALSE, is_timeout |-> FALSE, status |-> status] :
        status \in UpstreamStatuses}

(* One forward attempt: the label, and the response that proxy_handler     *)
(* returns for the outcome, lines 612-663.                                  *)
ForwardAttempt(outcome) ==
    Called("forward_to_upstream", <<outcome>>,
           [label |-> upstream_result_label(outcome),
            response |-> IF outcome.kind = "Response"
                         THEN Response(outcome.status, "", "success")
                         ELSE error_response(outcome)])

(* Any of the functions is called with any of the inputs.                 *)
NextCalls ==
    \/ Return
    \/ \E token \in TokenStrings, short_hash \in ShortHashes : LabelToken(token, short_hash)
    \/ \E headers \in RequestHeaders, gateway_auth \in GatewayAuths :
          Authorize(headers, gateway_auth)
    \/ \E path \in RequestPaths, routes \in RouteLists : MatchRoute(path, routes)
    \/ \E inbound \in InboundMaps, upstream \in HeaderPolicies :
          PrepareHeaders(inbound, upstream)
    \/ \E responder \in Responders, headers \in RequestIdHeaders,
          upstream_headers \in UpstreamResponseHeaders, generated \in GeneratedIds :
          Respond(responder, headers, upstream_headers, generated)
    \/ \E path \in RequestPaths, routes \in TiedRouteLists : MatchRoute(path, routes)
    \/ \E config \in PutConfigs : BuildFromConfig(config)
    \/ \E config \in KeyConfigs : DeriveUpstreamKey(config)
    \/ \E endpoint \in {"metrics", "metrics_summary"}, config \in MetricsConfigs,
          authorization \in MetricsAuthorizations :
          MetricsRequest(endpoint, config, authorization)
    \/ \E path \in RewrittenPaths, prefix \in AcceptedPrefixes, strip_prefix \in BOOLEAN :
          RewritePath(path, prefix, strip_prefix)
    \/ \E outcome \in SendOutcomes : ForwardAttempt(outcome)

SpecCalls == InitCalls /\ [][NextCalls]_vars


-----------------------------------------------------------------------------
(* Saving the config to its file, src/src/admin.rs                          *)
(* admin_config_save_handler.  The handlers of concurrent POSTs run on the *)
(* threads of the runtime; std::fs::write creates or truncates the temp    *)
(* file and then writes the text piece by piece, std::fs::rename moves the *)
(* temp file onto the config file.  A file is the sequence of the pieces   *)
(* written to it; a path names a file by its index in disk.files, 0 for no *)
(* file.                                                                     *)
NumSavers == 2
MaxSaves == 3
Savers == 1..NumSavers

(* serde_yaml::to_string(config), lines 150-159: the text of a config, in  *)
(* the pieces a write may stop between.                                      *)
YamlPieces == 2
to_yaml(config) == [part \in 1..YamlPieces |-> [config |-> config, part |-> part]]

IdleSaver == [pc |-> "idle", yaml |-> <<>>, fd |-> 0, offset |-> 0, status |-> 0, code |-> ""]
(* The file the config was loaded from at startup, as its operator wrote   *)
(* it, and the bytes a file reads where nothing was written.                *)
AsLoaded == <<[config |-> CfgOne, part |-> 0]>>
Hole == [config |-> CfgOne, part |-> -1]

InitSave ==
    /\ Started({CfgOne}, {Some(AdminToken)})
    /\ rl = None
    /\ rlTask = <<>>
    /\ rlLog = <<>>
    /\ body = None
    /\ call = None
    /\ summary = None
    /\ \E config_path \in {None, Some("config.yaml")} :
          disk = [config_path |-> config_path, canonical |-> 1, temp |-> 0,
                  files |-> <<AsLoaded>>, savers |-> [s \in Savers |-> IdleSaver],
                  saves |-> 0]

OnlyDisk == UNCHANGED <<now, runtime, states, reqs, admin, rl, rlTask, rlLog, body, call, summary>>

Answer(s, status, code) ==
    disk' = [disk EXCEPT !.savers[s] = [@ EXCEPT !.pc = "done", !.fd = 0,
                                                 !.status = status, !.code = code]]

(* Lines 141-159: the authorization and the path are checked, the current  *)
(* runtime state is loaded and its config serialized.                       *)
SaveReceived(s, header) ==
    /\ disk.savers[s].pc = "idle"
    /\ disk.saves < MaxSaves
    /\ IF ~is_admin_authorized(admin.token, header)
       THEN disk' = [disk EXCEPT !.saves = @ + 1,
                                 !.savers[s] = [IdleSaver EXCEPT !.pc = "done", !.status = 401,
                                                                 !.code = "unauthorized"]]
       ELSE IF disk.config_path = None
       THEN disk' = [disk EXCEPT !.saves = @ + 1,
                                 !.savers[s] = [IdleSaver EXCEPT !.pc = "done", !.status = 400,
                                                                 !.code = "config_path_unknown"]]
       ELSE disk' = [disk EXCEPT !.saves = @ + 1,
                                 !.savers[s] = [IdleSaver EXCEPT !.pc = "create",
                                                   !.yaml = to_yaml(states[runtime].config)]]
    /\ OnlyDisk

(* std::fs::write, line 162, opening the temp file: an existing file is    *)
(* truncated, a missing one created.                                        *)
TempCreated(s, ok) ==
    /\ disk.savers[s].pc = "create"
    /\ IF ~ok THEN Answer(s, 500, "write_error")
       ELSE IF disk.temp /= 0
       THEN disk' = [disk EXCEPT !.files[disk.temp] = <<>>,
                                 !.savers[s] = [@ EXCEPT !.pc = "write", !.fd = disk.temp,
                                                         !.offset = 0]]
       ELSE disk' = [disk EXCEPT !.files = Append(@, <<>>),
                                 !.temp = Len(disk.files) + 1,
                                 !.savers[s] = [@ EXCEPT !.pc = "write",
                                                         !.fd = Len(disk.files) + 1,
                                                         !.offset = 0]]
    /\ OnlyDisk

(* A write at an offset of a file; what lies between the end of the file   *)
(* and the offset reads as a hole.                                          *)
write_at(content, offset, piece) ==
    [i \in 1..(IF Len(content) > offset THEN Len(content) ELSE offset + 1) |->
        IF i = offset + 1 THEN piece
        ELSE IF i <= Len(content) THEN content[i] ELSE Hole]

(* std::fs::write, line 162, writing the next piece through its open file; *)
(* the file is closed after the last piece.                                 *)
TempWritten(s, ok) ==
    LET saver == disk.savers[s] IN
    /\ saver.pc = "write"
    /\ IF ~ok THEN Answer(s, 500, "write_error")
       ELSE disk' = [disk EXCEPT
                !.files[saver.fd] = write_at(@, saver.offset, saver.yaml[saver.offset + 1]),
                !.savers[s] = [@ EXCEPT !.offset = saver.offset + 1,
                                        !.pc = IF saver.offset + 1 = Len(saver.yaml)
                                               THEN "rename" ELSE "write",
                                        !.fd = IF saver.offset + 1 = Len(saver.yaml)
                                               THEN 0 ELSE saver.fd]]
    /\ OnlyDisk

(* Lines 169-176: std::fs::rename of the temp file onto the config file;   *)
(* it fails when the temp file is gone, or for a reason of the file system, *)
(* and then the temp file is removed.                                       *)
TempRenamed(s, ok) ==
    /\ disk.savers[s].pc = "rename"
    /\ IF ok /\ disk.temp /= 0
       THEN disk' = [disk EXCEPT !.canonical = disk.temp, !.temp = 0,
                                 !.savers[s] = [@ EXCEPT !.pc = "done", !.status = 200]]
       ELSE disk' = [disk EXCEPT !.temp = 0,
                                 !.savers[s] = [@ EXCEPT !.pc = "done", !.status = 500,
                                                         !.code = "rename_error"]]
    /\ OnlyDisk

(* The response has been sent; the thread serves the next request.         *)
SaveAnswered(s) ==
    /\ disk.savers[s].pc = "done"
    /\ disk' = [disk EXCEPT !.savers[s] = IdleSaver]
    /\ OnlyDisk

NextSave ==
    \/ \E s \in Savers, header \in AdminHeaders : SaveReceived(s, header)
    \/ \E s \in Savers, ok \in BOOLEAN : TempCreated(s, ok)
    \/ \E s \in Savers, ok \in BOOLEAN : TempWritten(s, ok)
    \/ \E s \in Savers, ok \in BOOLEAN : TempRenamed(s, ok)
    \/ \E s \in Savers : SaveAnswered(s)
    \/ \E header \in AdminHeaders, put_body \in PutBodies : AdminPut(header, put_body)

SpecSave == InitSave /\ [][NextSave]_vars

-----------------------------------------------------------------------------
(* GatewayMetrics and its SummaryState, src/src/observability.rs: the      *)
(* in-flight gauge, the per-minute buckets of routes and tokens and the    *)
(* in-flight counts of the summary, driven by the requests of              *)
(* proxy_handler.                                                           *)

TWENTY_FOUR_HOURS_MINUTES == 1440

NumCounted == 2        \* requests that reach the metrics
MaxClockSteps == 2     \* times the wall clock is seen to have moved on
StartMinute == 30000000

Counted == 1..NumCounted
SummaryRoutes == {"r1", "r2"}
SummaryTokens == {None, Some("tk")}

ONE_HOUR_MINUTES == 60

(* The wall clock moves on by a minute, by a minute less than the window   *)
(* or by the whole window.                                                  *)
ClockSteps == {1, TWENTY_FOUR_HOURS_MINUTES - 1, TWENTY_FOUR_HOURS_MINUTES}

(* The same around the edges of the window of an hour and of a day.        *)
SnapshotClockSteps ==
    {ONE_HOUR_MINUTES - 1, ONE_HOUR_MINUTES,
     TWENTY_FOUR_HOURS_MINUTES - 1, TWENTY_FOUR_HOURS_MINUTES}

saturating_sub(a, b) == IF a >= b THEN a - b ELSE 0

(* HashMap::get(..).copied().unwrap_or(0) and entry(..).or_default().      *)
unwrap_or(entry, default) == IF IsSome(entry) THEN Unwrap(entry) ELSE default

ensure_request_bucket(buckets, minute_epoch) ==
    IF Len(buckets) > 0 /\ buckets[Len(buckets)].minute_epoch = minute_epoch
    THEN buckets
    ELSE Append(buckets, [minute_epoch |-> minute_epoch, requests |-> 0])

ensure_route_bucket(buckets, minute_epoch) ==
    IF Len(buckets) > 0 /\ buckets[Len(buckets)].minute_epoch = minute_epoch
    THEN buckets
    ELSE Append(buckets, [minute_epoch |-> minute_epoch, requests |-> 0,
                          max_inflight |-> 0])

RECURSIVE prune_old_request_buckets(_, _)
prune_old_request_buckets(buckets, cutoff) ==
    IF Len(buckets) > 0 /\ Head(buckets).minute_epoch < cutoff
    THEN prune_old_request_buckets(Tail(buckets), cutoff)
    ELSE buckets

RECURSIVE prune_old_route_buckets(_, _)
prune_old_route_buckets(buckets, cutoff) ==
    IF Len(buckets) > 0 /\ Head(buckets).minute_epoch < cutoff
    THEN prune_old_route_buckets(Tail(buckets), cutoff)
    ELSE buckets

(* A cutoff a whole window before the minute.                              *)
cutoff_of_whole_window(minute_epoch) ==
    saturating_sub(minute_epoch, TWENTY_FOUR_HOURS_MINUTES)

(* Line 398: the oldest minute of the window that ends with minute_epoch.  *)
cutoff_of(minute_epoch) ==
    saturating_sub(minute_epoch, saturating_sub(TWENTY_FOUR_HOURS_MINUTES, 1))

(* Every route whose deque has become empty, whatever its in-flight count. *)
empty_routes_ignoring_inflight(state, pruned) ==
    {route_id \in SummaryRoutes :
        IsSome(pruned[route_id]) /\ Unwrap(pruned[route_id]) = <<>>}

(* Lines 400-407: the routes whose deque has become empty and whose        *)
(* in-flight count is zero.                                                 *)
empty_routes(state, pruned) ==
    {route_id \in SummaryRoutes :
        /\ IsSome(pruned[route_id])
        /\ Unwrap(pruned[route_id]) = <<>>
        /\ unwrap_or(state.route_inflight[route_id], 0) = 0}

(* SummaryState::prune, lines 397-426.  The maps are functions to options: *)
(* None is a key the map does not hold.                                     *)
prune(state, minute_epoch) ==
    LET cutoff == cutoff_of(minute_epoch)
        pruned == [route_id \in SummaryRoutes |->
                      IF IsSome(state.route_buckets[route_id])
                      THEN Some(prune_old_route_buckets(
                                    Unwrap(state.route_buckets[route_id]), cutoff))
                      ELSE None]
        removed == empty_routes(state, pruned)
        route_buckets == [route_id \in SummaryRoutes |->
                             IF route_id \in removed THEN None ELSE pruned[route_id]]
        route_inflight == [route_id \in SummaryRoutes |->
                              IF route_id \in removed THEN None
                              ELSE state.route_inflight[route_id]]
        retained == [route_id \in SummaryRoutes |->
                        IF /\ IsSome(route_inflight[route_id])
                           /\ \/ Unwrap(route_inflight[route_id]) > 0
                              \/ IsSome(route_buckets[route_id])
                        THEN route_inflight[route_id] ELSE None]
        tokens == [token \in DOMAIN state.token_buckets |->
                      IF IsSome(state.token_buckets[token])
                      THEN Some(prune_old_request_buckets(
                                    Unwrap(state.token_buckets[token]), cutoff))
                      ELSE None]
        token_buckets == [token \in DOMAIN tokens |->
                             IF tokens[token] = Some(<<>>) THEN None ELSE tokens[token]]
    IN  [route_buckets |-> route_buckets, token_buckets |-> token_buckets,
         route_inflight |-> retained]

(* SummaryState::observe_request, lines 357-377.                           *)
observe_request(state, route_id, token, minute_epoch) ==
    LET current_inflight == unwrap_or(state.route_inflight[route_id], 0)
        buckets == ensure_route_bucket(unwrap_or(state.route_buckets[route_id], <<>>),
                                       minute_epoch)
        route_bucket == [buckets EXCEPT
                            ![Len(buckets)].requests = @ + 1,
                            ![Len(buckets)].max_inflight =
                                IF @ > current_inflight THEN @ ELSE current_inflight]
        with_route == [state EXCEPT !.route_buckets[route_id] = Some(route_bucket)]
        label == Unwrap(token)
        token_bucket == ensure_request_bucket(unwrap_or(state.token_buckets[label], <<>>),
                                              minute_epoch)
        with_token ==
            IF IsSome(token)
            THEN [with_route EXCEPT !.token_buckets[label] =
                     Some([token_bucket EXCEPT ![Len(token_bucket)].requests = @ + 1])]
            ELSE with_route
    IN  prune(with_token, minute_epoch)

(* SummaryState::adjust_inflight, lines 379-395.                           *)
adjust_inflight(state, route_id, delta, minute_epoch) ==
    LET entry == unwrap_or(state.route_inflight[route_id], 0)
        current_inflight == IF delta >= 0 THEN entry + delta
                            ELSE saturating_sub(entry, -delta)
        buckets == ensure_route_bucket(unwrap_or(state.route_buckets[route_id], <<>>),
                                       minute_epoch)
        route_bucket == [buckets EXCEPT
                            ![Len(buckets)].max_inflight =
                                IF @ > current_inflight THEN @ ELSE current_inflight]
    IN  prune([state EXCEPT !.route_inflight[route_id] = Some(current_inflight),
                            !.route_buckets[route_id] = Some(route_bucket)],
              minute_epoch)

(* SummaryState::snapshot, lines 463-467: inflight_current of a route.     *)
inflight_current(state, route_id) == unwrap_or(state.route_inflight[route_id], 0)

(* GatewayMetrics::inc_inflight and dec_inflight, lines 210-230: the gauge *)
(* of the route and the summary under its lock, stamped with the minute    *)
(* read there.                                                              *)
inc_inflight(metrics, route_id) ==
    [metrics EXCEPT !.gauge[route_id] = @ + 1,
                    !.state = adjust_inflight(@, route_id, 1, metrics.minute),
                    !.stamp = Some(metrics.minute)]

dec_inflight(metrics, route_id) ==
    [metrics EXCEPT !.gauge[route_id] = @ - 1,
                    !.state = adjust_inflight(@, route_id, -1, metrics.minute),
                    !.stamp = Some(metrics.minute)]

(* GatewayMetrics::observe_request, lines 162-192, as far as the summary   *)
(* goes.                                                                    *)
observe_summary(metrics, route_id, token) ==
    [metrics EXCEPT !.state = observe_request(@, route_id, token, metrics.minute),
                    !.stamp = Some(metrics.minute)]

NewRequest == [pc |-> "new", route_id |-> "", token_label |-> None, ended_by |-> "",
               observed_at |-> None]

InitSummary ==
    /\ IdleElsewhere
    /\ call = None
    /\ disk = None
    /\ summary = [minute |-> StartMinute, steps |-> 0, clock |-> ClockSteps,
                  gauge |-> [route_id \in SummaryRoutes |-> 0],
                  state |-> [route_buckets |-> [route_id \in SummaryRoutes |-> None],
                             token_buckets |-> [token \in {"tk"} |-> None],
                             route_inflight |-> [route_id \in SummaryRoutes |-> None]],
                  stamp |-> None,
                  requests |-> [t \in Counted |-> NewRequest]]

OnlySummary == UNCHANGED <<now, runtime, states, reqs, admin, rl, rlTask, rlLog, body, call, disk>>

(* epoch_minute_now, lines 593-598, read later.                            *)
MinutePasses(step) ==
    /\ summary.steps < MaxClockSteps
    /\ step \in summary.clock
    /\ summary' = [summary EXCEPT !.minute = @ + step, !.steps = @ + 1]
    /\ OnlySummary

(* proxy_handler answers before the in-flight count: the request is        *)
(* observed and nothing else.                                               *)
ObserveRejected(t, route_id, token) ==
    /\ summary.requests[t].pc = "new"
    /\ summary' = [observe_summary(summary, route_id, token) EXCEPT
                      !.requests[t] = [@ EXCEPT !.pc = "done", !.route_id = route_id,
                                                !.token_label = token,
                                                !.ended_by = "rejected",
                                                !.observed_at = Some(summary.minute)]]
    /\ OnlySummary

(* server.rs lines 597-599: both permits are held, metrics.inc_inflight.   *)
CountInflight(t, route_id, token) ==
    /\ summary.requests[t].pc = "new"
    /\ summary' = [inc_inflight(summary, route_id) EXCEPT
                      !.requests[t] = [@ EXCEPT !.pc = "sending", !.route_id = route_id,
                                                !.token_label = token]]
    /\ OnlySummary

(* server.rs lines 644-647: forward_to_upstream returned Err,              *)
(* metrics.dec_inflight.                                                    *)
UncountFailed(t) ==
    /\ summary.requests[t].pc = "sending"
    /\ summary' = [dec_inflight(summary, summary.requests[t].route_id) EXCEPT
                      !.requests[t] = [@ EXCEPT !.pc = "ended",
                                                !.ended_by = "upstream_error"]]
    /\ OnlySummary

(* server.rs lines 612-643: the completion guard moves into the body.      *)
BodyStarts(t) ==
    /\ summary.requests[t].pc = "sending"
    /\ summary' = [summary EXCEPT !.requests[t].pc = "streaming"]
    /\ OnlySummary

BodyEndings == {"ended", "errored", "dropped"}

(* server.rs lines 891-899: the body stream is dropped after its end, an   *)
(* error or the client going away; Drop for ResponseCompletionGuard calls  *)
(* metrics.dec_inflight.                                                    *)
UncountDropped(t, how) ==
    /\ summary.requests[t].pc = "streaming"
    /\ summary' = [dec_inflight(summary, summary.requests[t].route_id) EXCEPT
                      !.requests[t] = [@ EXCEPT !.pc = "ended", !.ended_by = how]]
    /\ OnlySummary

(* server.rs lines 648-662 and 900-917: the request is observed.           *)
ObserveEnded(t) ==
    /\ summary.requests[t].pc = "ended"
    /\ summary' = [observe_summary(summary, summary.requests[t].route_id,
                                   summary.requests[t].token_label) EXCEPT
                      !.requests[t] = [@ EXCEPT !.pc = "done",
                                                !.observed_at = Some(summary.minute)]]
    /\ OnlySummary

NextSummary ==
    \/ \E step \in ClockSteps \cup SnapshotClockSteps : MinutePasses(step)
    \/ \E t \in Counted, route_id \in SummaryRoutes, token \in SummaryTokens :
          ObserveRejected(t, route_id, token)
    \/ \E t \in Counted, route_id \in SummaryRoutes, token \in SummaryTokens :
          CountInflight(t, route_id, token)
    \/ \E t \in Counted : UncountFailed(t)
    \/ \E t \in Counted : BodyStarts(t)
    \/ \E t \in Counted, how \in BodyEndings : UncountDropped(t, how)
    \/ \E t \in Counted : ObserveEnded(t)

SpecSummary == InitSummary /\ [][NextSummary]_vars

(* SummaryState::snapshot, lines 428-524.                                  *)
RECURSIVE requests_since(_, _)
requests_since(buckets, minute) ==
    IF buckets = <<>> THEN 0
    ELSE (IF Head(buckets).minute_epoch >= minute THEN Head(buckets).requests ELSE 0)
         + requests_since(Tail(buckets), minute)

RECURSIVE inflight_peak_since(_, _)
inflight_peak_since(buckets, minute) ==
    IF buckets = <<>> THEN 0
    ELSE LET rest == inflight_peak_since(Tail(buckets), minute)
             head == IF Head(buckets).minute_epoch >= minute
                     THEN Head(buckets).max_inflight ELSE 0
         IN  IF head > rest THEN head ELSE rest

(* The order of String on the route ids and labels of the model.           *)
StringOrder == <<"r1", "r2", "tk">>
StringRank(string) == CHOOSE i \in 1..Len(StringOrder) : StringOrder[i] = string

(* Lines 475-481 and 505-510: the order of sort_by.                        *)
route_before(left, right) ==
    \/ left.requests_24h > right.requests_24h
    \/ /\ left.requests_24h = right.requests_24h
       /\ \/ left.inflight_current > right.inflight_current
          \/ /\ left.inflight_current = right.inflight_current
             /\ StringRank(left.route_id) < StringRank(right.route_id)

token_before(left, right) ==
    \/ left.requests_24h > right.requests_24h
    \/ /\ left.requests_24h = right.requests_24h
       /\ StringRank(left.token) < StringRank(right.token)

RECURSIVE total_of(_, _)
total_of(routes, field) ==
    IF routes = <<>> THEN 0 ELSE Head(routes)[field] + total_of(Tail(routes), field)

(* A snapshot whose hour starts a whole hour before the minute.            *)
snapshot_hour_of_61(state, now_minute) ==
    LET minute_1h == saturating_sub(now_minute, ONE_HOUR_MINUTES)
        minute_24h == saturating_sub(now_minute, saturating_sub(TWENTY_FOUR_HOURS_MINUTES, 1))
        route_ids == {id \in SummaryRoutes :
                         IsSome(state.route_buckets[id]) \/ IsSome(state.route_inflight[id])}
        route_of(id) ==
            LET buckets == unwrap_or(state.route_buckets[id], <<>>)
            IN  [route_id |-> id,
                 requests_1h |-> requests_since(buckets, minute_1h),
                 requests_24h |-> requests_since(buckets, minute_24h),
                 inflight_current |-> inflight_current(state, id),
                 inflight_peak_1h |-> inflight_peak_since(buckets, minute_1h),
                 inflight_peak_24h |-> inflight_peak_since(buckets, minute_24h)]
        unsorted == {route_of(id) : id \in route_ids}
        routes == CHOOSE seq \in [1..Cardinality(unsorted) -> unsorted] :
                      \A i, j \in 1..Cardinality(unsorted) :
                          i < j => route_before(seq[i], seq[j])
        labels == {k \in DOMAIN state.token_buckets : IsSome(state.token_buckets[k])}
        token_of(k) ==
            [token |-> k,
             requests_1h |-> requests_since(Unwrap(state.token_buckets[k]), minute_1h),
             requests_24h |-> requests_since(Unwrap(state.token_buckets[k]), minute_24h)]
        unsorted_tokens == {token_of(k) : k \in labels}
        tokens == CHOOSE seq \in [1..Cardinality(unsorted_tokens) -> unsorted_tokens] :
                      \A i, j \in 1..Cardinality(unsorted_tokens) :
                          i < j => token_before(seq[i], seq[j])
    IN  [total_requests_1h |-> total_of(routes, "requests_1h"),
         total_requests_24h |-> total_of(routes, "requests_24h"),
         routes |-> routes, tokens |-> tokens]

(* generated_at_unix_ms, the time of the snapshot in milliseconds, is left *)
(* out of the result.                                                       *)
snapshot(state, now_minute) ==
    LET minute_1h == saturating_sub(now_minute, saturating_sub(ONE_HOUR_MINUTES, 1))
        minute_24h == saturating_sub(now_minute, saturating_sub(TWENTY_FOUR_HOURS_MINUTES, 1))
        route_ids == {id \in SummaryRoutes :
                         IsSome(state.route_buckets[id]) \/ IsSome(state.route_inflight[id])}
        route_of(id) ==
            LET buckets == unwrap_or(state.route_buckets[id], <<>>)
            IN  [route_id |-> id,
                 requests_1h |-> requests_since(buckets, minute_1h),
                 requests_24h |-> requests_since(buckets, minute_24h),
                 inflight_current |-> inflight_current(state, id),
                 inflight_peak_1h |-> inflight_peak_since(buckets, minute_1h),
                 inflight_peak_24h |-> inflight_peak_since(buckets, minute_24h)]
        unsorted == {route_of(id) : id \in route_ids}
        routes == CHOOSE seq \in [1..Cardinality(unsorted) -> unsorted] :
                      \A i, j \in 1..Cardinality(unsorted) :
                          i < j => route_before(seq[i], seq[j])
        labels == {k \in DOMAIN state.token_buckets : IsSome(state.token_buckets[k])}
        token_of(k) ==
            [token |-> k,
             requests_1h |-> requests_since(Unwrap(state.token_buckets[k]), minute_1h),
             requests_24h |-> requests_since(Unwrap(state.token_buckets[k]), minute_24h)]
        unsorted_tokens == {token_of(k) : k \in labels}
        tokens == CHOOSE seq \in [1..Cardinality(unsorted_tokens) -> unsorted_tokens] :
                      \A i, j \in 1..Cardinality(unsorted_tokens) :
                          i < j => token_before(seq[i], seq[j])
    IN  [total_requests_1h |-> total_of(routes, "requests_1h"),
         total_requests_24h |-> total_of(routes, "requests_24h"),
         routes |-> routes, tokens |-> tokens]

InitSnapshot ==
    /\ IdleElsewhere
    /\ call = None
    /\ disk = None
    /\ summary = [minute |-> StartMinute, steps |-> 0, clock |-> SnapshotClockSteps,
                  gauge |-> [route_id \in SummaryRoutes |-> 0],
                  state |-> [route_buckets |-> [route_id \in SummaryRoutes |-> None],
                             token_buckets |-> [token \in {"tk"} |-> None],
                             route_inflight |-> [route_id \in SummaryRoutes |-> None]],
                  stamp |-> None,
                  requests |-> [t \in Counted |-> NewRequest]]

(* GatewayMetrics::snapshot_summary, lines 256-262: the snapshot is taken  *)
(* under the lock of the summary at the minute read there.                 *)
SnapshotSummary ==
    Called("snapshot_summary", <<summary.minute>>, snapshot(summary.state, summary.minute))

(* The traffic goes on once the reader of the snapshot has its answer.     *)
NextSnapshot ==
    \/ call = None /\ NextSummary
    \/ SnapshotSummary
    \/ Return

SpecSnapshot == InitSnapshot /\ [][NextSnapshot]_vars

-----------------------------------------------------------------------------
(* Properties of the request pipeline, specification Spec.                *)

StateIndices == 1..Len(states)
ConfigOf(g) == states[g].config

(* The requests of runtime state g that hold its downstream permit, and    *)
(* those that hold an upstream permit of the route with the given id.      *)
DownHolders(g) == {r \in Slots : reqs[r].rt = g /\ reqs[r].down}
UpHolders(g, id) ==
    {r \in Slots : /\ reqs[r].rt = g
                   /\ reqs[r].up
                   /\ ConfigOf(g).routes[reqs[r].route].id = id}

(* The limits as the configuration states them.                            *)
DownstreamCap(config) ==
    IF IsSome(config.concurrency)
    THEN Unwrap(config.concurrency).downstream_max_inflight ELSE None
UpstreamCap(config, route) ==
    IF IsSome(route.upstream.upstream_key_max_inflight)
    THEN route.upstream.upstream_key_max_inflight
    ELSE IF IsSome(config.concurrency)
    THEN Unwrap(config.concurrency).upstream_per_key_max_inflight
    ELSE None

AllTerminal == \A r \in Slots : reqs[r].pc \in {"idle", "done"}

(* The order of the checks as stated, and the check a response comes from. *)
StatedOrder == <<"route", "preflight", "auth", "rate", "downstream", "url", "headers",
                 "upstream", "forward">>
Pos(check) == CHOOSE i \in 1..Len(StatedOrder) : StatedOrder[i] = check
CheckOfResponse(response) ==
    CASE response.code = "route_not_found" -> "route"
      [] response.outcome = "preflight" -> "preflight"
      [] response.code = "unauthorized" -> "auth"
      [] response.code = "rate_limited" -> "rate"
      [] response.code = "downstream_concurrency_exceeded" -> "downstream"
      [] response.code = "invalid_upstream_path" -> "url"
      [] response.code = "upstream_header_error" -> "headers"
      [] response.code = "upstream_concurrency_exceeded" -> "upstream"
      [] OTHER -> "forward"
StatedTrace(r) == SelectSeq(reqs[r].trace, LAMBDA check : check /= "client")

ChecksInOrder ==
    \A r \in Slots :
        /\ IsPrefixOf(StatedTrace(r), StatedOrder)
        /\ reqs[r].pc \notin {"idle", "done", "unwind", "streaming", "dropping"}
               => reqs[r].resp = NoResponse
        /\ reqs[r].resp /= NoResponse
               => /\ StatedTrace(r) /= <<>>
                  /\ StatedTrace(r)[Len(StatedTrace(r))] = CheckOfResponse(reqs[r].resp)

(* A step that rejects request r, and what it may not touch: the shared    *)
(* state of the checks after the failing one.                               *)
RejectionStopsPipeline ==
    \A r \in Slots :
        LET g == reqs'[r].rt
            rejected == /\ reqs'[r].trace /= reqs[r].trace
                        /\ reqs'[r].pc \in {"unwind", "done"}
                        /\ reqs'[r].resp.outcome /= "success"
            failing == Pos(CheckOfResponse(reqs'[r].resp))
        IN  /\ rejected =>
                /\ failing < Pos("rate") => states'[g].rate_limiter = states[g].rate_limiter
                /\ states'[g].concurrency = states[g].concurrency
                /\ failing < Pos("forward")
                       => /\ states'[g].inflight = states[g].inflight
                          /\ states'[g].sse_inflight = states[g].sse_inflight
            /\ reqs[r].pc = "unwind" /\ reqs'[r] /= reqs[r] =>
                /\ reqs'[r].trace = reqs[r].trace
                /\ reqs'[r].resp = reqs[r].resp
                /\ states'[g].rate_limiter = states[g].rate_limiter
                /\ states'[g].inflight = states[g].inflight

(* C1: the checks of a request are evaluated in the fixed order route      *)
(* match, CORS preflight, gateway auth, rate limit, downstream gate,        *)
(* upstream URL, upstream headers, upstream per-key gate, forward; the      *)
(* response is the outcome of the first check that fails, and the step      *)
(* that rejects evaluates no later check and changes no shared state of a   *)
(* later check.                                                             *)
FirstFailingCheckAnswers == []ChecksInOrder /\ [][RejectionStopsPipeline]_vars

(* One request failed at the header build after passing five checks, and   *)
(* another was stopped by the rate limiter.                                 *)
LateAndEarlyRejection ==
    \E r, q \in Slots :
        /\ reqs[r].resp.code = "upstream_header_error"
        /\ reqs[r].trace = SubSeq(CheckOrder, 1, 7)
        /\ reqs[q].resp.code = "rate_limited"
        /\ reqs[q].trace = SubSeq(CheckOrder, 1, 4)

SemaphoresAtCapacity(g) ==
    LET ctl == states[g].concurrency
    IN  ctl /= None =>
          /\ Unwrap(ctl).downstream_semaphore = DownstreamCap(ConfigOf(g))
          /\ \A key \in DOMAIN Unwrap(ctl).upstream_semaphores :
               \E i \in 1..Len(ConfigOf(g).routes) :
                  /\ ConfigOf(g).routes[i].id = key[1]
                  /\ Some(Unwrap(ctl).upstream_semaphores[key])
                        = UpstreamCap(ConfigOf(g), ConfigOf(g).routes[i])

PermitsAccounted(g) ==
    LET ctl == states[g].concurrency
    IN  IF ctl = None
        THEN \A r \in Slots : reqs[r].rt = g => ~reqs[r].down /\ ~reqs[r].up
        ELSE /\ IF Unwrap(ctl).downstream_semaphore = None
                THEN DownHolders(g) = {}
                ELSE Some(Unwrap(Unwrap(ctl).downstream_semaphore) + Cardinality(DownHolders(g)))
                        = DownstreamCap(ConfigOf(g))
             /\ \A i \in 1..Len(ConfigOf(g).routes) :
                  LET route == ConfigOf(g).routes[i]
                      key == semaphore_key_of(route)
                  IN  IF key \in DOMAIN Unwrap(ctl).upstream_semaphores
                      THEN Some(Unwrap(ctl).upstream_semaphores[key]
                                   + Cardinality(UpHolders(g, route.id)))
                              = UpstreamCap(ConfigOf(g), route)
                      ELSE UpHolders(g, route.id) = {}

(* C2: every permit taken is returned exactly once: while requests run, a  *)
(* semaphore's free permits and its holders add up to its capacity, and    *)
(* when every request has reached a terminal outcome every semaphore is    *)
(* back at its configured capacity.                                         *)
PermitsRestored ==
    \A g \in StateIndices :
        /\ PermitsAccounted(g)
        /\ AllTerminal => SemaphoresAtCapacity(g)

(* Both requests are over: one failed at the header build while it held    *)
(* the downstream permit, one was forwarded and its body stream dropped.    *)
PermitsBackAfterFailures ==
    /\ AllTerminal
    /\ \E r, q \in Slots :
          /\ reqs[r].resp.code = "upstream_header_error"
          /\ reqs[q].resp.outcome = "success"
    /\ IsSome(Unwrap(states[1].concurrency).downstream_semaphore)
    /\ DOMAIN Unwrap(states[1].concurrency).upstream_semaphores /= {}

DownstreamBounded ==
    \A g \in StateIndices :
        IsSome(DownstreamCap(ConfigOf(g)))
            => Cardinality(DownHolders(g)) <= Unwrap(DownstreamCap(ConfigOf(g)))

(* The step of request r at the downstream gate.                           *)
DownstreamGateDecides ==
    \A r \in Slots :
        LET g == reqs[r].rt
            cap == DownstreamCap(ConfigOf(g))
            full == Cardinality(DownHolders(g)) = Unwrap(cap)
        IN  /\ reqs[r].pc = "downstream" /\ reqs'[r] /= reqs[r] /\ IsSome(cap) =>
                IF full
                THEN /\ reqs'[r].pc = "done"
                     /\ reqs'[r].resp = Response(503, "downstream_concurrency_exceeded",
                                                 "concurrency")
                     /\ ~reqs'[r].down
                ELSE /\ reqs'[r].down
                     /\ reqs'[r].resp = NoResponse
                     /\ reqs'[r].pc = "build"
            /\ reqs[r].pc \notin {"idle", "done"} /\ reqs[r].down /\ ~reqs'[r].down =>
                Cardinality({q \in Slots : reqs'[q].rt = g /\ reqs'[q].down})
                    = Cardinality(DownHolders(g)) - 1

(* C3: with downstream_max_inflight = N at most N requests hold a          *)
(* downstream permit; a request that arrives at the gate when N are held   *)
(* is answered 503 downstream_concurrency_exceeded in that same step (it   *)
(* never waits), any other is admitted, and a permit is free again as soon *)
(* as its holder drops it.                                                  *)
DownstreamCapHolds == []DownstreamBounded /\ [][DownstreamGateDecides]_vars

(* The cap is reached and a request was turned away at the gate.           *)
DownstreamFullAndRejected ==
    \E r, q \in Slots :
        /\ reqs[q].down
        /\ Cardinality(DownHolders(reqs[q].rt)) = Unwrap(DownstreamCap(ConfigOf(reqs[q].rt)))
        /\ reqs[r].rt = reqs[q].rt
        /\ reqs[r].resp.code = "downstream_concurrency_exceeded"

(* C4: the upstream permits held at once for a route never exceed the      *)
(* effective limit (the route's upstream_key_max_inflight if set, else the *)
(* global upstream_per_key_max_inflight); the route has at most one        *)
(* semaphore, however the first accesses interleave; with no effective     *)
(* limit no upstream permit is taken and no request is rejected at the     *)
(* upstream gate.                                                           *)
UpstreamKeyBounded ==
    \A g \in StateIndices :
        /\ \A i \in 1..Len(ConfigOf(g).routes) :
             LET route == ConfigOf(g).routes[i]
                 cap == UpstreamCap(ConfigOf(g), route)
                 mine == {r \in Slots : reqs[r].rt = g /\ reqs[r].route = i}
             IN  IF cap = None
                 THEN \A r \in mine :
                          /\ ~reqs[r].up
                          /\ reqs[r].sem = None
                          /\ reqs[r].resp.code /= "upstream_concurrency_exceeded"
                 ELSE Cardinality(UpHolders(g, route.id)) <= Unwrap(cap)
        /\ states[g].concurrency /= None =>
             LET semaphores == Unwrap(states[g].concurrency).upstream_semaphores
             IN  /\ \A k1, k2 \in DOMAIN semaphores : k1[1] = k2[1] => k1 = k2
                 /\ \A key \in DOMAIN semaphores : semaphores[key] >= 0
                 /\ \A r \in Slots :
                        reqs[r].rt = g /\ IsSome(reqs[r].sem)
                            => Unwrap(reqs[r].sem) \in DOMAIN semaphores

(* Two requests for one route both hold the handle of the route's single   *)
(* semaphore before either has tried to acquire.                            *)
ConcurrentFirstAccess ==
    \E r, q \in Slots :
        /\ r /= q
        /\ reqs[r].pc = "upstream_acquire"
        /\ reqs[q].pc = "upstream_acquire"
        /\ reqs[r].sem = reqs[q].sem
        /\ Cardinality(DOMAIN Unwrap(states[reqs[r].rt].concurrency).upstream_semaphores) = 1

(* The step of request r at the upstream gate.                             *)
UpstreamGateDecides ==
    \A r \in Slots :
        LET g == reqs[r].rt
            route == ConfigOf(g).routes[reqs[r].route]
            cap == UpstreamCap(ConfigOf(g), route)
            exhausted == Cardinality(UpHolders(g, route.id)) = Unwrap(cap)
        IN  reqs[r].pc = "upstream_acquire" /\ reqs'[r] /= reqs[r] =>
                IF exhausted
                THEN reqs'[r].resp.code = "upstream_concurrency_exceeded"
                ELSE reqs'[r].up /\ reqs'[r].resp = NoResponse

(* C5: upstream permits are accounted per route: a request is rejected at  *)
(* the upstream gate only when its own route's permits are all held, so    *)
(* exhausting route A's key never rejects a request on route B.             *)
RoutesIsolated == [][UpstreamGateDecides]_vars

(* Route a's only permit is held and a request on route b holds a permit   *)
(* of its own.                                                              *)
OtherRouteAdmitted ==
    \E r, q \in Slots :
        /\ reqs[r].rt = reqs[q].rt
        /\ reqs[q].up /\ ConfigOf(reqs[q].rt).routes[reqs[q].route].id = "a"
        /\ Cardinality(UpHolders(reqs[q].rt, "a"))
              = Unwrap(UpstreamCap(ConfigOf(reqs[q].rt), ConfigOf(reqs[q].rt).routes[reqs[q].route]))
        /\ reqs[r].up /\ ConfigOf(reqs[r].rt).routes[reqs[r].route].id = "b"

-----------------------------------------------------------------------------
(* Properties of the rate limiter, specification SpecRate.                *)

MinuteOf(epoch_seconds) == epoch_seconds \div SecondsPerMinute
SamePair(i, j) ==
    rlLog[i].route_id = rlLog[j].route_id /\ rlLog[i].token = rlLog[j].token

(* The checks of the pair of check i that took the lock before it in an    *)
(* unbroken sequence of checks stamped within the minute of check i.        *)
EarlierInMinute(i) ==
    {j \in 1..(i - 1) :
        /\ SamePair(i, j)
        /\ \A k \in j..i : MinuteOf(rlLog[k].stamp) = MinuteOf(rlLog[i].stamp)}

(* The seconds from a timestamp to the next minute boundary.                *)
SecondsToNextMinute(epoch_seconds) ==
    (MinuteOf(epoch_seconds) + 1) * SecondsPerMinute - epoch_seconds

(* C6: for every (route, token) pair and minute, in any interleaving of    *)
(* concurrent checks stamped within that minute, exactly the first          *)
(* per_minute checks of the pair are allowed and every later one is         *)
(* rejected with 429 rate_limited and Retry-After = the seconds to the next *)
(* minute boundary, a value in 1..60.                                       *)
FirstPerMinuteAllowed ==
    \A i \in 1..Len(rlLog) :
        /\ rlLog[i].allowed <=> Cardinality(EarlierInMinute(i)) < Unwrap(rl).per_minute
        /\ rlLog[i].allowed => rlLog[i].resp = NoResponse
        /\ ~rlLog[i].allowed =>
              /\ rlLog[i].resp = Response(429, "rate_limited", "rate_limited")
              /\ rlLog[i].retry_after = SecondsToNextMinute(rlLog[i].stamp)
              /\ rlLog[i].retry_after \in 1..60

(* One caller was rejected after the pair's budget was spent, while        *)
(* another caller still holds an earlier stamp of the same minute for the  *)
(* same pair.                                                               *)
RejectedAmongConcurrentChecks ==
    \E i \in 1..Len(rlLog), t \in Checkers :
        /\ ~rlLog[i].allowed
        /\ Cardinality(EarlierInMinute(i)) >= Unwrap(rl).per_minute
        /\ rlTask[t].pc = "stamped"
        /\ rlTask[t].route_id = rlLog[i].route_id
        /\ rlTask[t].token = rlLog[i].token
        /\ MinuteOf(rlTask[t].stamp) = MinuteOf(rlLog[i].stamp)
        /\ rlTask[t].stamp < rlLog[i].stamp

(* The check that finds the stored bucket different from its minute.       *)
NewMinuteClearsAll ==
    \A t \in Checkers :
        (/\ rlTask[t].pc = "stamped"
         /\ rlTask'[t].pc = "idle"
         /\ MinuteOf(rlTask[t].stamp) /= Unwrap(rl).minute_bucket)
        => /\ Unwrap(rl').minute_bucket = MinuteOf(rlTask[t].stamp)
           /\ Unwrap(rl').counters = (RateKey(rlTask[t].route_id, rlTask[t].token) :> 1)
           /\ rlLog'[Len(rlLog')].allowed

FirstCheckOfMinuteAllowed ==
    \A i \in 1..Len(rlLog) :
        (\A j \in 1..(i - 1) :
            SamePair(i, j) => MinuteOf(rlLog[j].stamp) /= MinuteOf(rlLog[i].stamp))
        => rlLog[i].allowed

(* C7: the first check observed in a new minute sets the stored bucket to  *)
(* that minute and clears the counters of all pairs before it is counted,  *)
(* so a pair's first check in a minute is allowed even if the pair spent   *)
(* its budget in the minute before.                                         *)
NewMinuteResetsWindow == []FirstCheckOfMinuteAllowed /\ [][NewMinuteClearsAll]_vars

(* A pair that spent its budget in one minute and was rejected there has   *)
(* 2 * per_minute checks allowed within 60 seconds across the boundary.     *)
BurstAcrossBoundary ==
    \E i, j \in 1..Len(rlLog) :
        LET allowed == {k \in 1..Len(rlLog) : SamePair(i, k) /\ rlLog[k].allowed}
        IN  /\ i < j /\ SamePair(i, j)
            /\ ~rlLog[i].allowed
            /\ rlLog[j].allowed
            /\ MinuteOf(rlLog[j].stamp) = MinuteOf(rlLog[i].stamp) + 1
            /\ Cardinality(allowed) = 2 * Unwrap(rl).per_minute
            /\ \A k, l \in allowed : rlLog[k].stamp - rlLog[l].stamp < SecondsPerMinute

(* The check whose minute is earlier than the stored bucket takes the      *)
(* window back to its minute and clears every counter before it counts.    *)
EarlierMinuteClearsAll ==
    \A t \in Checkers :
        (/\ rlTask[t].pc = "stamped"
         /\ rlTask'[t].pc = "idle"
         /\ MinuteOf(rlTask[t].stamp) < Unwrap(rl).minute_bucket)
        => /\ Unwrap(rl').minute_bucket = MinuteOf(rlTask[t].stamp)
           /\ Unwrap(rl').minute_bucket < Unwrap(rl).minute_bucket
           /\ DOMAIN Unwrap(rl').counters = {RateKey(rlTask[t].route_id, rlTask[t].token)}
           /\ \A key \in DOMAIN Unwrap(rl').counters : Unwrap(rl').counters[key] = 1
           /\ rlLog'[Len(rlLog')].allowed

(* The allowed checks of the pair of check i that are stamped in its       *)
(* minute.                                                                  *)
AllowedInMinuteOf(i) ==
    {j \in 1..Len(rlLog) : /\ SamePair(i, j)
                           /\ rlLog[j].allowed
                           /\ MinuteOf(rlLog[j].stamp) = MinuteOf(rlLog[i].stamp)}

NonDecreasingMinutes ==
    \A i, j \in 1..Len(rlLog) :
        i < j => MinuteOf(rlLog[i].stamp) <= MinuteOf(rlLog[j].stamp)

BoundForNonDecreasingMinutes ==
    NonDecreasingMinutes =>
        \A i \in 1..Len(rlLog) : Cardinality(AllowedInMinuteOf(i)) <= Unwrap(rl).per_minute

(* C37: the rate limiter resets on any change of the minute, not only on   *)
(* an advance: a check whose minute is earlier than the stored bucket also *)
(* clears all counters and sets the stored bucket to that earlier minute,  *)
(* so the bound of per_minute allowed checks per pair and minute holds     *)
(* only for non-decreasing timestamps.                                      *)
ResetOnEarlierMinute == []BoundForNonDecreasingMinutes /\ [][EarlierMinuteClearsAll]_vars

(* A check stamped in the minute before took the window back, and a pair   *)
(* has more than per_minute checks allowed in one minute.                   *)
BoundBrokenAfterStepBack ==
    \E i, j, k \in 1..Len(rlLog) :
        /\ i < j /\ j < k
        /\ MinuteOf(rlLog[j].stamp) < MinuteOf(rlLog[i].stamp)
        /\ SamePair(i, k)
        /\ MinuteOf(rlLog[k].stamp) = MinuteOf(rlLog[i].stamp)
        /\ Cardinality(AllowedInMinuteOf(i)) > Unwrap(rl).per_minute

(* The count of a pair in the limiter; a pair without an entry counts 0.  *)
CounterOf(limiter, pair) ==
    IF RateKey(pair[1], pair[2]) \in DOMAIN limiter.counters
    THEN limiter.counters[RateKey(pair[1], pair[2])] ELSE 0
PairOf(entry) == <<entry.route_id, entry.token>>
Checked == PairOf(rlLog'[Len(rlLog')])

(* A rejection of a pair comes after per_minute allowed checks of that     *)
(* very pair, whatever was checked for other pairs.                         *)
RejectedByOwnChecks ==
    \A i \in 1..Len(rlLog) :
        ~rlLog[i].allowed =>
            Cardinality({j \in 1..(i - 1) : SamePair(i, j) /\ rlLog[j].allowed})
                >= Unwrap(rl).per_minute
DistinctKeys ==
    \A p, q \in RatePairs : p /= q => RateKey(p[1], p[2]) /= RateKey(q[1], q[2])
KeysOfPairs ==
    rl /= None =>
        DOMAIN Unwrap(rl).counters \subseteq {RateKey(p[1], p[2]) : p \in RatePairs}
OnlyCheckedCounterChanges ==
    Len(rlLog') > Len(rlLog) =>
        \A p \in RatePairs \ {Checked} : CounterOf(Unwrap(rl'), p) = CounterOf(Unwrap(rl), p)
OtherCountersKeptOrCleared ==
    Len(rlLog') > Len(rlLog) =>
        LET stamp == rlLog'[Len(rlLog')].stamp
        IN  \A p \in RatePairs \ {Checked} :
                CounterOf(Unwrap(rl'), p) =
                    IF MinuteOf(stamp) /= Unwrap(rl).minute_bucket THEN 0
                    ELSE CounterOf(Unwrap(rl), p)

(* C23 as stated: a check for one pair changes only that pair's counter,   *)
(* so exhausting the budget of one pair never causes a rejection for a     *)
(* pair of another route or another token, and two distinct pairs never    *)
(* map to the same counter key.                                             *)
CheckChangesOnlyItsCounter ==
    [](RejectedByOwnChecks /\ DistinctKeys /\ KeysOfPairs) /\ [][OnlyCheckedCounterChanges]_vars

(* C23 as amended: a check leaves the counter of every other pair as it is *)
(* unless its minute differs from the stored one, and then it clears them  *)
(* all; it never raises another pair's counter.                             *)
CountersSeparatePerPair ==
    [](RejectedByOwnChecks /\ DistinctKeys /\ KeysOfPairs) /\ [][OtherCountersKeptOrCleared]_vars

(* The budget of (a, gw1) is spent and rejected, and checks of the same    *)
(* token on another route, of another token on the same route, and on the  *)
(* route whose id holds a line feed were allowed after that.               *)
OtherPairsAllowedAfterRejection ==
    \E i \in 1..Len(rlLog) :
        /\ PairOf(rlLog[i]) = <<"a", "gw1">> /\ ~rlLog[i].allowed
        /\ \E j \in (i + 1)..Len(rlLog) :
              /\ MinuteOf(rlLog[j].stamp) = MinuteOf(rlLog[i].stamp)
              /\ PairOf(rlLog[j]) /= <<"a", "gw1">> /\ rlLog[j].allowed

-----------------------------------------------------------------------------
(* Properties of the admin surface, specification SpecAdmin.              *)

(* The parts of a runtime state that are fixed when it is built.           *)
BuiltFrom(state, config) ==
    /\ state.config = config
    /\ Some(state.upstream_clients) = build_upstream_clients(config)
    /\ IsSome(state.rate_limiter) = IsSome(config.rate_limit)
    /\ IsSome(state.rate_limiter)
          => Unwrap(state.rate_limiter).per_minute = Unwrap(config.rate_limit).per_minute
    /\ IsSome(state.concurrency) = IsSome(ConcurrencyControllerNew(config))
    /\ IsSome(state.concurrency)
          => /\ IsSome(Unwrap(state.concurrency).downstream_semaphore)
                    = IsSome(DownstreamCap(config))
             /\ Unwrap(state.concurrency).upstream_default_limit
                    = Unwrap(ConcurrencyControllerNew(config)).upstream_default_limit

OneStatePerRequest ==
    /\ \A g \in StateIndices : BuiltFrom(states[g], ConfigOf(g))
    /\ \A r \in Slots :
          reqs[r].pc /= "idle" =>
              /\ reqs[r].rt \in StateIndices
              /\ reqs[r].used = {reqs[r].rt}
              /\ IsSome(reqs[r].headers) =>
                    reqs[r].headers
                       = prepare_upstream_headers(NoHeaders,
                             ConfigOf(reqs[r].rt).routes[reqs[r].route].upstream)
              /\ IsSome(reqs[r].sem) =>
                    /\ reqs[r].sem = Some(semaphore_key_of(ConfigOf(reqs[r].rt).routes[reqs[r].route]))
                    /\ Unwrap(reqs[r].sem)
                          \in DOMAIN Unwrap(states[reqs[r].rt].concurrency).upstream_semaphores

(* A replacement of the state cell touches no request and no runtime state *)
(* published before, and a request that starts takes the state the cell    *)
(* holds.                                                                   *)
SwapLeavesRequestsAlone ==
    /\ (runtime' /= runtime \/ Len(states') /= Len(states)) =>
          /\ reqs' = reqs
          /\ \A g \in StateIndices : states'[g] = states[g]
    /\ \A g \in StateIndices : states'[g].config = states[g].config
    /\ \A r \in Slots :
          reqs[r].pc \in {"idle", "done"} /\ reqs'[r] /= reqs[r]
              => reqs'[r].rt = runtime /\ reqs'[r].used = {runtime}

(* C8: a request uses the one runtime state it took at its start for its   *)
(* whole lifetime, and the config, upstream clients, rate limiter and      *)
(* concurrency controller of a runtime state are built from one config; a  *)
(* PUT of a new config does not cancel a request in flight and does not    *)
(* change the route, injected headers or limits it uses, and a request     *)
(* that starts after the PUT uses the new config.                           *)
RequestKeepsItsRuntimeState == []OneStatePerRequest /\ [][SwapLeavesRequestsAlone]_vars

(* After a PUT, a request that started before it streams its response with *)
(* the injected key of the old config while a request that started after   *)
(* it carries the key of the new config.                                    *)
OldAndNewInFlight ==
    \E r, q \in Slots :
        /\ runtime = 2
        /\ reqs[r].rt = 1 /\ reqs[r].pc = "streaming"
        /\ reqs[q].rt = 2 /\ reqs[q].pc = "streaming"
        /\ reqs[r].headers = Some("x-api-key" :> << <<"key-a">> >>)
        /\ reqs[q].headers = Some("x-api-key" :> << <<"key-a2">> >>)

(* A step of the admin handler, by what the PUT carried.                   *)
PutOutcome ==
    \A header \in AdminHeaders, put_body \in PutBodies :
        AdminPut(header, put_body) =>
            LET authorized == IsSome(admin.token) /\ header = admin.token
                passes == /\ authorized
                          /\ IsSome(put_body)
                          /\ validate(Unwrap(put_body))
                          /\ IsSome(build_upstream_clients(Unwrap(put_body)))
            IN  /\ ~authorized => admin'.status = 401
                /\ authorized /\ put_body = None => admin'.status = 400
                /\ authorized /\ IsSome(put_body) /\ ~validate(Unwrap(put_body))
                      => admin'.status = 400
                /\ authorized /\ IsSome(put_body) /\ validate(Unwrap(put_body))
                      /\ build_upstream_clients(Unwrap(put_body)) = None
                      => admin'.status = 500
                /\ ~passes => runtime' = runtime /\ states' = states
                /\ passes =>
                      /\ admin'.status = 200
                      /\ runtime' = Len(states')
                      /\ Len(states') = Len(states) + 1
                      /\ states'[runtime'].config = Unwrap(put_body)

CellChangesOnlyOnSuccess ==
    /\ admin'.status \in {401, 400, 500} /\ reqs' = reqs
          => runtime' = runtime /\ states' = states
    /\ runtime' /= runtime =>
          /\ admin'.status = 200
          /\ IsSome(admin.token)
          /\ validate(states'[runtime'].config)

(* C9: a PUT rejected because the admin token is missing or wrong, the     *)
(* body does not parse, validate fails or the runtime build fails is       *)
(* answered 401, 400 or 500 and leaves the state cell holding the runtime  *)
(* state it held; only a PUT that passes all of these replaces it.          *)
RejectedPutKeepsState == [][PutOutcome /\ CellChangesOnlyOnSuccess]_vars

(* A PUT failed at the runtime build after an earlier PUT had replaced the *)
(* state: the cell still holds the state of the earlier PUT.                *)
RejectedAfterReplaced ==
    /\ admin.status = 500
    /\ admin.code = "runtime_build_error"
    /\ runtime = 2
    /\ Len(states) = 2

-----------------------------------------------------------------------------
(* Properties of the response deadline, specification SpecDeadline.       *)

DeadlineFixedAtSend ==
    Body.phase /= "admitted" =>
        Body.deadline = Body.send_start + Body.request_timeout_ms

(* What the body stream of a response that is not SSE has yielded, and how *)
(* it ends.                                                                 *)
DeadlineBoundsReads ==
    ~Body.is_sse =>
        /\ DeadlineFixedAtSend
        /\ \A i \in 1..Len(Body.items) :
              Body.items[i] \in {"TimedOut", "Other"} => i = Len(Body.items)
        /\ (Body.items /= <<>> /\ Body.items[Len(Body.items)] = "TimedOut") =>
              /\ Body.clock >= Body.deadline
              /\ Body.phase \in {"errored", "dropped"}
        /\ Body.phase \in {"dropped", "failed"} =>
              /\ ~Body.down /\ ~Body.up
              /\ Body.ctl.downstream_semaphore = Some(1)
              /\ Body.ctl.upstream_semaphores[DeadlineKey] = 1

(* A read that is pending when the deadline has come does not outlast the  *)
(* instant: it ends with the timed-out error (or with what the upstream    *)
(* delivers at that instant), and after an error the stream yields nothing *)
(* more before it is dropped.                                               *)
NoReadPastDeadline ==
    /\ (/\ Body.phase = "reading" /\ ~Body.is_sse
        /\ Body.clock >= Body.deadline
        /\ body' /= body)
       => /\ Unwrap(body').clock = Body.clock
          /\ Unwrap(body').phase /= "reading"
    /\ (Body.phase = "errored" /\ body' /= body)
       => /\ Unwrap(body').phase \in {"errored", "dropped"}
          /\ Unwrap(body').items = Body.items

(* C10: for a response that is not SSE the deadline fixed before the       *)
(* upstream send (send start + request_timeout_ms) bounds every read of a  *)
(* body chunk: a read pending at the deadline ends with an io error of     *)
(* kind TimedOut, the body stream then terminates and the permits of the   *)
(* request are released; no read is pending past the deadline.              *)
BodyReadBoundedByDeadline == []DeadlineBoundsReads /\ [][NoReadPastDeadline]_vars

(* The upstream sent headers and one chunk and then stalled: the stream    *)
(* ended with the timed-out error at the deadline and the permits are back. *)
StalledBodyTimedOut ==
    /\ body /= None
    /\ ~Body.is_sse
    /\ Body.items = <<"chunk", "TimedOut">>
    /\ Body.clock = Body.deadline
    /\ Body.phase = "dropped"
    /\ Body.ctl.downstream_semaphore = Some(1)

(* The media type as stated: the pieces before the first ";" are one word, *)
(* text/event-stream in any case, with nothing but spaces around it.  A    *)
(* value that is no string has no media type.                               *)
StatedEventStream(content_type) ==
    /\ content_type /= None
    /\ \A i \in 1..Len(Unwrap(content_type)) : Unwrap(content_type)[i] /= "<0xff>"
    /\ LET value == Unwrap(content_type)
           ends == {i \in 1..Len(value) : value[i] = ";"} \cup {Len(value) + 1}
           cut == CHOOSE i \in ends : \A j \in ends : i <= j
       IN  \E k \in 1..(cut - 1) :
              /\ value[k] \in {"text/event-stream", "TEXT/Event-Stream"}
              /\ \A j \in (1..(cut - 1)) \ {k} : value[j] = " "

SseClassifiedAndUnbounded ==
    Body.phase \notin {"admitted", "sending", "failed"} =>
        /\ Body.is_sse <=> StatedEventStream(Body.content_type)
        /\ Body.is_sse =>
              /\ Body.timer = None
              /\ \A i \in 1..Len(Body.items) : Body.items[i] /= "TimedOut"

(* The steps of an SSE body stream: however late it is, a pending read     *)
(* ends only by what the upstream delivers or by the downstream going away. *)
SseEndsOnlyByPeers ==
    (Body.is_sse /\ Body.phase \in {"streaming", "reading"} /\ body' /= body) =>
        LET after == Unwrap(body')
        IN  /\ after.phase \in {"streaming", "reading", "ended", "errored", "abandoned"}
            /\ after.phase = "errored" => after.items = Append(Body.items, "Other")
            /\ after.phase = "ended" => Body.phase = "reading" /\ after.items = Body.items
            /\ after.phase \in {"streaming", "reading"} =>
                  \/ after.items = Body.items
                  \/ after.items = Append(Body.items, "chunk")

(* C11: a response is SSE iff the media type of its Content-Type (before   *)
(* ';', trimmed) is text/event-stream in any case; for such a response the *)
(* deadline bounds only the wait for headers: after them its elapsing      *)
(* never puts an error on the body stream, nor truncates or ends it; the   *)
(* stream ends only when the upstream ends it or the downstream drops it.   *)
SseBodyOutlivesDeadline == []SseClassifiedAndUnbounded /\ [][SseEndsOnlyByPeers]_vars

(* An SSE response with an upper-case media type and a parameter delivered *)
(* a chunk and has a read pending after the deadline has passed.            *)
SseReadPastDeadline ==
    /\ body /= None
    /\ Body.content_type = Some(<<"TEXT/Event-Stream", " ", ";", " ", "charset=utf-8">>)
    /\ Body.is_sse
    /\ Body.phase = "reading"
    /\ Body.items = <<"chunk">>
    /\ Body.clock > Body.deadline

(* The permits of the request are back in their semaphores.                *)
PermitsBack ==
    /\ ~Body.down /\ ~Body.up
    /\ Body.ctl.downstream_semaphore = Some(1)
    /\ Body.ctl.upstream_semaphores[DeadlineKey] = 1
DroppedByClient == body /= None /\ Body.phase = "dropped" /\ Body.ended_by = "abandoned"
AfterClientDrop ==
    DroppedByClient =>
        /\ PermitsBack
        /\ Body.inflight = 0
        /\ Body.sse_inflight = 0
        /\ Body.observed = 1
ClientDropStep ==
    (body /= None /\ Body.phase = "abandoned" /\ body' /= body /\ Unwrap(body').phase /= "abandoned") =>
        /\ Unwrap(body').phase = "dropped"
        /\ Body.down /\ Body.up /\ Body.observed = 0
        /\ Unwrap(body').inflight = Body.inflight - 1
        /\ Unwrap(body').sse_inflight = Body.sse_inflight - (IF Body.is_sse THEN 1 ELSE 0)
        /\ Unwrap(body').observed = 1

(* C28: when the downstream drops the response body stream before it has   *)
(* ended, at that point both permits are released, the in-flight gauge is  *)
(* decremented, the SSE gauge is decremented iff the response was SSE, and *)
(* the completion is recorded exactly once; also for an SSE stream that    *)
(* the upstream never ends.                                                 *)
ClientDropReleasesAll == []AfterClientDrop /\ [][ClientDropStep]_vars

(* An SSE stream was read past the request deadline, the upstream never    *)
(* ended it, and the client went away.                                      *)
SseDroppedByClientPastDeadline ==
    /\ DroppedByClient
    /\ Body.is_sse
    /\ Body.clock > Body.deadline
    /\ Body.items /= <<>>

(* The guard carries success and the status of the upstream response; a    *)
(* body stream that is gone was recorded as the guard says, however it     *)
(* ended; upstream_error is recorded only when the headers never came.     *)
OutcomeAsGuardSays ==
    /\ IsSome(Body.guard) =>
          /\ Unwrap(Body.guard).outcome = "success"
          /\ Unwrap(Body.guard).status = Body.resp.status
          /\ Body.phase \notin {"admitted", "sending", "failed"}
    /\ Body.phase = "dropped" =>
          /\ Body.ended_by \in {"ended", "errored", "abandoned"}
          /\ Body.recorded = Some([outcome |-> "success", status |-> Body.resp.status])
    /\ (IsSome(Body.recorded) /\ Unwrap(Body.recorded).outcome = "upstream_error") =>
          /\ Body.phase = "failed"
          /\ Body.guard = None
          /\ Unwrap(Body.recorded).status \in {502, 504}
    /\ IsSome(Body.recorded) => Body.observed = 1

(* Once built, the guard is what it was.                                   *)
GuardKept == IsSome(Body.guard) => Unwrap(body').guard = Body.guard

(* C34: once upstream response headers have been received the outcome      *)
(* recorded for the request is fixed to success with the upstream status:  *)
(* it stays success when the body later fails with the deadline error,     *)
(* when the upstream body errors, when the client disconnects and when the *)
(* upstream status is 4xx or 5xx; upstream_error is recorded only for      *)
(* failures before headers.                                                 *)
OutcomeFixedAtHeaders == []OutcomeAsGuardSays /\ [][GuardKept]_vars

(* A response with status 500 whose body ran into the deadline was         *)
(* recorded as success with status 500.                                     *)
ServerErrorPastDeadlineRecordedSuccess ==
    /\ Body.phase = "dropped"
    /\ Body.ended_by = "errored"
    /\ Body.items /= <<>>
    /\ Body.items[Len(Body.items)] = "TimedOut"
    /\ Body.recorded = Some([outcome |-> "success", status |-> 500])

-----------------------------------------------------------------------------
(* Properties of upstream failures, specification Spec.                    *)

FailedBeforeHeaders(r) == reqs[r].error /= None

(* The outcome stated for a failure of the send: a timeout, of the request *)
(* deadline or reported by the client, comes first.                         *)
StatedFailure(error) ==
    LET timed_out == error.kind = "Timeout" \/ error.is_timeout
        connect_failed == error.kind = "Request" /\ error.is_connect
    IN  CASE timed_out -> <<504, "upstream_timeout">>
          [] ~timed_out /\ connect_failed -> <<502, "upstream_connect_error">>
          [] OTHER -> <<502, "upstream_request_failed">>

(* The requests counted by the in-flight gauge of a route: those between   *)
(* the increment before the send and the decrement.                         *)
InFlight(g, id) ==
    {r \in Slots : /\ reqs[r].rt = g
                   /\ reqs[r].pc \in {"sending", "streaming", "dropping"}
                   /\ ConfigOf(g).routes[reqs[r].route].id = id}

FailureAnswered ==
    /\ \A r \in Slots : FailedBeforeHeaders(r) =>
          /\ <<reqs[r].resp.status, reqs[r].resp.code>> = StatedFailure(Unwrap(reqs[r].error))
          /\ reqs[r].pc \in {"unwind", "done"}
          /\ reqs[r].pc = "done" => ~reqs[r].down /\ ~reqs[r].up
    /\ \A g \in StateIndices : ConfigOf(g).metrics =>
          \A id \in RouteIds : states[g].inflight[id] = Cardinality(InFlight(g, id))
    /\ \A g \in StateIndices : PermitsAccounted(g)

(* The step that fails the send takes the gauge back to what it was before *)
(* the request was counted, and the unwinding that follows returns the     *)
(* permits the request holds and nothing else.                              *)
FailureReleases ==
    \A r \in Slots :
        /\ (reqs[r].pc = "sending" /\ FailedBeforeHeaders(r)')
              => \A id \in RouteIds :
                    states'[reqs[r].rt].inflight[id] =
                        IF ConfigOf(reqs[r].rt).metrics /\ RouteOf(r).id = id
                        THEN states[reqs[r].rt].inflight[id] - 1
                        ELSE states[reqs[r].rt].inflight[id]
        /\ (FailedBeforeHeaders(r) /\ reqs[r].pc = "unwind" /\ reqs'[r] /= reqs[r])
              => /\ reqs'[r].pc \in {"unwind", "done"}
                 /\ reqs'[r].resp = reqs[r].resp
                 /\ Cardinality({p \in {"down", "up"} : reqs'[r][p]})
                       = Cardinality({p \in {"down", "up"} : reqs[r][p]}) - 1

-----------------------------------------------------------------------------
(* Properties of the outcome table, specification Spec.                    *)

OutcomeTable ==
    { <<404, "route_not_found", "route_not_found">>,
      <<403, "cors_origin_not_allowed", "preflight">>,
      <<401, "unauthorized", "unauthorized">>,
      <<429, "rate_limited", "rate_limited">>,
      <<503, "downstream_concurrency_exceeded", "concurrency">>,
      <<503, "upstream_concurrency_exceeded", "concurrency">>,
      <<400, "invalid_upstream_path", "gateway_error">>,
      <<502, "upstream_header_error", "gateway_error">>,
      <<502, "upstream_connect_error", "upstream_error">>,
      <<502, "upstream_request_failed", "upstream_error">>,
      <<504, "upstream_timeout", "upstream_error">> }

Answered(r) == reqs[r].resp /= NoResponse
Row(response) == <<response.status, response.code, response.outcome>>
(* The answers that are no rejection: an allowed preflight and the         *)
(* upstream's own response.                                                  *)
PassedOn(response) == Row(response) \in {<<204, "", "preflight">>, <<200, "", "success">>}

(* C14: every rejected or failed proxy response carries the body           *)
(* {"error": code} with status, code and metric outcome being one row of   *)
(* the outcome table; no error code outside the table is ever returned.    *)
RejectionsFollowOutcomeTable ==
    \A r \in Slots : Answered(r) =>
        /\ PassedOn(reqs[r].resp) \/ Row(reqs[r].resp) \in OutcomeTable
        /\ reqs[r].resp.code /= "" <=> Row(reqs[r].resp) \in OutcomeTable
        /\ reqs[r].resp.code = "" <=> reqs[r].resp.status < 400

(* A refused preflight and a failed header encoding have both been         *)
(* answered.                                                                 *)
PreflightAndHeaderRejections ==
    \E r, q \in Slots :
        /\ Row(reqs[r].resp) = <<403, "cors_origin_not_allowed", "preflight">>
        /\ Row(reqs[q].resp) = <<502, "upstream_header_error", "gateway_error">>

-----------------------------------------------------------------------------
(* Properties of the CORS preflight, specification Spec.                   *)

CorsEnabled(config) == config.cors /= None /\ config.cors[1].enabled

(* An OPTIONS request that carries Origin and                               *)
(* Access-Control-Request-Method, on a path under a route's prefix.         *)
PreflightShaped(shape) == shape.method = "OPTIONS" /\ shape.origin /= None /\ shape.acrm
OnSomeRoute(config, path) ==
    \E i \in 1..Len(config.routes) :
        LET prefix == config.routes[i].prefix
        IN  /\ Len(prefix) <= Len(path)
            /\ SubSeq(path, 1, Len(prefix)) = prefix
            /\ \/ prefix = <<"/">>
               \/ Len(prefix) = Len(path)
               \/ path[Len(prefix) + 1] = "/"

OriginResolves(config, origin) ==
    \E allowed \in config.cors[1].allow_origins :
        allowed = "*" \/ (origin /= <<"<0xff>">> /\ <<allowed>> = origin)

(* Whatever request of that shape an arrival step may have received, with  *)
(* whatever credentials, the step answered it as a preflight, evaluated    *)
(* nothing after the preflight check and changed no runtime state.          *)
PreflightStep ==
    \A r \in Slots :
        ( /\ reqs[r].pc \in {"idle", "done"}
          /\ reqs'[r] /= reqs[r]
          /\ CorsEnabled(ConfigOf(runtime)) ) =>
            \A path \in {p \in Paths : OnSomeRoute(ConfigOf(runtime), p)},
               shape \in {s \in RequestShapes : PreflightShaped(s)},
               candidate \in Candidates :
                Receive(r, path, shape.method, shape.origin, shape.acrm, candidate)
                => /\ reqs'[r].pc = "done"
                   /\ reqs'[r].trace = <<"route", "preflight">>
                   /\ Row(reqs'[r].resp) =
                         IF OriginResolves(ConfigOf(runtime), shape.origin)
                         THEN <<204, "", "preflight">>
                         ELSE <<403, "cors_origin_not_allowed", "preflight">>
                   /\ ~reqs'[r].down /\ ~reqs'[r].up
                   /\ states' = states

(* C16: with CORS enabled an OPTIONS request carrying Origin and           *)
(* Access-Control-Request-Method on a matched route is answered before     *)
(* authentication, 204 if the origin resolves against allow_origins and    *)
(* 403 cors_origin_not_allowed otherwise, whatever credentials it carries, *)
(* and it leaves the rate limiter's counters and the semaphores unchanged. *)
PreflightBypassesAuth == [][PreflightStep]_vars

(* One preflight was allowed and another refused for its origin.           *)
PreflightAllowedAndRefused ==
    \E r, q \in Slots :
        /\ reqs[r].trace = <<"route", "preflight">> /\ reqs[r].resp.status = 204
        /\ reqs[q].trace = <<"route", "preflight">> /\ reqs[q].resp.status = 403
        /\ reqs[r].pc = "done" /\ reqs[q].pc = "done"



-----------------------------------------------------------------------------
(* Properties of the in-flight gauge under the downstream cap,             *)
(* specification Spec.                                                      *)

RECURSIVE GaugeSum(_, _)
GaugeSum(g, route_ids) ==
    IF route_ids = {} THEN 0
    ELSE LET id == CHOOSE id \in route_ids : TRUE
         IN  states[g].inflight[id] + GaugeSum(g, route_ids \ {id})

(* C32: with a downstream cap N configured, under any interleaving of      *)
(* admissions and body completions the sum over routes of the in-flight    *)
(* gauge never exceeds N: a request's in-flight count is removed before    *)
(* its permits become available to another request.                        *)
GaugeWithinDownstreamCap ==
    \A g \in StateIndices :
        (ConfigOf(g).metrics /\ IsSome(DownstreamCap(ConfigOf(g))))
            => GaugeSum(g, RouteIds) <= Unwrap(DownstreamCap(ConfigOf(g)))

-----------------------------------------------------------------------------
(* Properties of the observation of requests, specification Spec.          *)

MetricsOn(r) == reqs[r].pc /= "idle" /\ ConfigOf(reqs[r].rt).metrics

(* A request whose response is produced or whose body stream is gone has   *)
(* been observed once, under its route; any other has not been observed.   *)
ObservedWhenOver ==
    \A r \in Slots : MetricsOn(r) =>
        IF reqs[r].pc \in {"unwind", "done"}
        THEN /\ reqs[r].observed = 1
             /\ reqs[r].observed_as =
                   (IF reqs[r].route = 0 THEN "__unmatched__" ELSE RouteOf(r).id)
        ELSE reqs[r].observed = 0

(* The step that observes a request is the step that produces the response *)
(* of a rejected or failed request, or the last step of the drop of the    *)
(* body stream of a forwarded one.                                          *)
ObservedAtTheEnd ==
    \A r \in Slots :
        LET started == reqs[r].pc \notin {"idle", "done"}
            before == IF started THEN reqs[r].observed ELSE 0
        IN  (reqs'[r] /= reqs[r] /\ reqs'[r].observed /= before) =>
                /\ reqs'[r].observed = before + 1
                /\ \/ /\ reqs'[r].resp.outcome /= "success"
                      /\ reqs'[r].resp /= NoResponse
                      /\ started => reqs[r].resp = NoResponse
                   \/ /\ reqs[r].pc = "dropping"
                      /\ reqs'[r].pc = "done"
                      /\ reqs[r].resp.outcome = "success"
                      /\ reqs'[r].resp = reqs[r].resp

-----------------------------------------------------------------------------
(* Properties of the consumption of the rate budget, specification Spec.   *)

(* The units of the budget of a key that are spent in the stored window.   *)
Units(limiter, key) ==
    IF key \in DOMAIN limiter.counters THEN limiter.counters[key] ELSE 0

RateChecked(r) == reqs[r].pc = "rate" /\ reqs'[r] /= reqs[r]

(* The step of a request at the limiter spends one unit of its pair iff    *)
(* the request goes on, none if it is answered 429; no other step of any   *)
(* request, a later rejection or failure included, touches a limiter.      *)
UnitSpentAtLimiterOnly ==
    \A g \in StateIndices : IsSome(states[g].rate_limiter) =>
        LET before == Unwrap(states[g].rate_limiter)
            after == Unwrap(states'[g].rate_limiter)
            keys == DOMAIN before.counters \cup DOMAIN after.counters
            rotating == before.minute_bucket /= MinuteOf(now)
            kept(key) == IF rotating THEN 0 ELSE Units(before, key)
        IN  IF \E r \in Slots : RateChecked(r) /\ reqs[r].rt = g
            THEN \A r \in Slots : (RateChecked(r) /\ reqs[r].rt = g) =>
                    LET own == RateKey(RouteOf(r).id, reqs[r].token)
                    IN  /\ reqs'[r].pc = "downstream" =>
                              /\ Units(after, own) = kept(own) + 1
                              /\ \A key \in keys \ {own} : Units(after, key) = kept(key)
                        /\ reqs'[r].pc /= "downstream" =>
                              /\ reqs'[r].resp.code = "rate_limited"
                              /\ \A key \in keys : Units(after, key) = Units(before, key)
            ELSE \A key \in keys : Units(after, key) = Units(before, key)

(* Who has been to the limiter: the requests that passed route match,      *)
(* preflight and auth, and no other.                                        *)
LimiterSeenAfterAuth ==
    \A r \in Slots : (reqs[r].pc /= "idle" /\ IsSome(states[reqs[r].rt].rate_limiter)) =>
        LET checked == \E i \in 1..Len(reqs[r].trace) : reqs[r].trace[i] = "rate"
        IN  /\ reqs[r].resp.code \in {"route_not_found", "unauthorized"} => ~checked
            /\ reqs[r].resp.outcome \in {"preflight", "cors_origin_not_allowed"} => ~checked
            /\ reqs[r].resp.code \in {"downstream_concurrency_exceeded",
                                      "upstream_concurrency_exceeded",
                                      "invalid_upstream_path", "upstream_header_error",
                                      "upstream_client_not_found",
                                      "upstream_timeout", "upstream_connect_error",
                                      "upstream_request_failed"} => checked
            /\ reqs[r].resp.outcome = "success" => checked

(* C35: a request consumes one unit of its (route, token) rate budget iff  *)
(* it passes route match, preflight and auth and is allowed by the         *)
(* limiter: requests later rejected by a concurrency gate, by URL or       *)
(* header build, or failing upstream have consumed a unit, while           *)
(* unmatched, preflight, unauthorized and rate-limited requests consume    *)
(* none.                                                                    *)
RateUnitSpentIffAllowed == []LimiterSeenAfterAuth /\ [][UnitSpentAtLimiterOnly]_vars

(* In the first window a request was turned away at the downstream gate    *)
(* and the unit of its pair stays spent, next to the unit of the request   *)
(* of another route that holds the permit.                                  *)
UnitSpentByRequestTurnedAway ==
    \E r, q \in Slots :
        LET limiter == Unwrap(states[reqs[r].rt].rate_limiter)
        IN  /\ reqs[r].pc = "done"
            /\ reqs[r].resp.code = "downstream_concurrency_exceeded"
            /\ reqs[q].down /\ reqs[q].rt = reqs[r].rt
            /\ reqs[q].route /= reqs[r].route
            /\ IsSome(states[reqs[r].rt].rate_limiter)
            /\ limiter.minute_bucket = MinuteOf(StartSecond)
            /\ Units(limiter, RateKey(RouteOf(r).id, "gw1")) = 1
            /\ Units(limiter, RateKey(RouteOf(q).id, "gw1")) = 1

-----------------------------------------------------------------------------
(* Properties of the limits across a config apply, specification           *)
(* SpecAdmin.                                                               *)

(* Each runtime state accounts for its own requests: its free permits and  *)
(* the permits held by the requests that work on it add up to its caps.    *)
LimitsPerState == \A g \in StateIndices : PermitsAccounted(g)

(* A successful PUT publishes a state whose limiter has no counter and     *)
(* whose semaphores are full, and leaves the states before it alone; a     *)
(* step of a request changes the state the request works on and no other.  *)
PutStartsFresh ==
    /\ Len(states') > Len(states) =>
          LET fresh == states'[Len(states')]
          IN  /\ Len(states') = Len(states) + 1
              /\ runtime' = Len(states')
              /\ admin'.status = 200
              /\ \A g \in StateIndices : states'[g] = states[g]
              /\ IsSome(fresh.rate_limiter) =>
                    Unwrap(fresh.rate_limiter).counters = <<>>
              /\ IsSome(fresh.concurrency) =>
                    /\ Unwrap(fresh.concurrency).downstream_semaphore
                          = DownstreamCap(fresh.config)
                    /\ Unwrap(fresh.concurrency).upstream_semaphores = <<>>
    /\ \A g \in StateIndices :
          states'[g] /= states[g] =>
              \E r \in Slots : reqs'[r] /= reqs[r] /\ reqs[r].rt = g /\ reqs'[r].rt = g

(* C36: limits are enforced per runtime state: after a successful PUT the  *)
(* new state starts with empty rate-limit counters and fully available     *)
(* semaphores, and budget consumed or permits held under the previous      *)
(* state are not counted against it, so requests admitted under the old    *)
(* and the new state together can exceed per_minute within one minute and  *)
(* downstream_max_inflight at one time.                                     *)
LimitsEnforcedPerState == []LimitsPerState /\ [][PutStartsFresh]_vars

(* Two requests of the same pair hold a downstream permit at once, one     *)
(* under the state before the PUT and one under the state after it, each   *)
(* state with a cap of one and a budget of one a minute, both units spent  *)
(* in the same minute.                                                      *)
OldAndNewExceedLimits ==
    \E r, q \in Slots :
        LET old == states[reqs[r].rt]
            new == states[reqs[q].rt]
            key == RateKey(RouteOf(r).id, "gw1")
        IN  /\ reqs[r].pc /= "idle" /\ reqs[q].pc /= "idle"
            /\ reqs[r].rt < reqs[q].rt
            /\ reqs[r].down /\ reqs[q].down
            /\ DownstreamCap(old.config) = Some(1)
            /\ DownstreamCap(new.config) = Some(1)
            /\ RouteOf(r).id = RouteOf(q).id
            /\ IsSome(old.rate_limiter) /\ IsSome(new.rate_limiter)
            /\ Unwrap(old.rate_limiter).per_minute = 1
            /\ Unwrap(new.rate_limiter).per_minute = 1
            /\ Unwrap(old.rate_limiter).minute_bucket = Unwrap(new.rate_limiter).minute_bucket
            /\ Units(Unwrap(old.rate_limiter), key) = 1
            /\ Units(Unwrap(new.rate_limiter), key) = 1

(* The limiter keys a configuration allows: one per pair of a configured   *)
(* route id and an allow-listed token.                                      *)
ConfiguredRateKeys(config) ==
    { RateKey(config.routes[i].id, config.tokens[j]) :
          i \in 1..Len(config.routes), j \in 1..Len(config.tokens) }

CounterKeys(g) ==
    IF states[g].rate_limiter = None THEN {}
    ELSE DOMAIN Unwrap(states[g].rate_limiter).counters

SemaphoreKeys(g) ==
    IF states[g].concurrency = None THEN {}
    ELSE DOMAIN Unwrap(states[g].concurrency).upstream_semaphores

ConfiguredRouteIds(config) == { config.routes[i].id : i \in 1..Len(config.routes) }

LimiterStateBounded ==
    \A g \in 1..Len(states) :
        /\ CounterKeys(g) \subseteq ConfiguredRateKeys(states[g].config)
        /\ \A key \in SemaphoreKeys(g) : key[1] \in ConfiguredRouteIds(states[g].config)
        /\ \A key, other \in SemaphoreKeys(g) : key[1] = other[1] => key = other

(* A request is turned away as unmatched or unauthorized.                  *)
TurnedAway(r) ==
    /\ reqs'[r] /= reqs[r]
    /\ reqs'[r].resp.code \in {"route_not_found", "unauthorized"}

LimiterMaps(g) == <<CounterKeys(g), SemaphoreKeys(g)>>

TurnedAwayCreatesNoEntry ==
    (\E r \in Slots : TurnedAway(r))
        => /\ Len(states') = Len(states)
           /\ \A g \in 1..Len(states) : LimiterMaps(g)' = LimiterMaps(g)

(* C39: in every reachable state every key of a rate limiter's counter map *)
(* is made of a configured route id and an allow-listed token, the         *)
(* semaphore map holds at most one entry per configured route, and a       *)
(* request turned away as unmatched or unauthorized, whatever token and    *)
(* path it carries, creates no entry in either map.                        *)
LimiterBoundedByConfiguration ==
    []LimiterStateBounded /\ [][TurnedAwayCreatesNoEntry]_vars

(* Both maps hold an entry while an unmatched or unauthorized request has  *)
(* just been answered.                                                      *)
MapsFilledAndRequestTurnedAway ==
    /\ \E g \in 1..Len(states) : CounterKeys(g) /= {} /\ SemaphoreKeys(g) /= {}
    /\ \E r \in Slots : /\ reqs[r].pc = "done"
                        /\ reqs[r].resp.code \in {"route_not_found", "unauthorized"}

-----------------------------------------------------------------------------
(* Properties of the functions of the gateway, specification SpecCalls.   *)

CalledFn(fn) == call /= None /\ Unwrap(call).fn = fn
Args == Unwrap(call).args
Result == Unwrap(call).result

(* s occurs in t as a run of consecutive characters.                        *)
Contains(t, s) ==
    \E i \in 1..(Len(t) - Len(s) + 1) : SubSeq(t, i, i + Len(s) - 1) = s

(* C12: no raw gateway token appears in a metrics label, summary entry or  *)
(* log field: for every token validate accepts, what is emitted for it is  *)
(* token_label(token), and the label does not contain the token.            *)
LabelHidesToken ==
    CalledFn("token_label") => ~Contains(Result, Args[1])

(* The candidate a source yields, as stated: the bearer source yields the  *)
(* trimmed rest of an Authorization value "<scheme> <rest>" whose scheme   *)
(* is bearer in any case; a header source yields the trimmed value of its  *)
(* header; nothing is yielded when that is empty.                           *)
StatedCandidate(headers, source) ==
    LET name == IF source.type = "authorization_bearer" THEN "authorization"
                ELSE IF source.name = "X-Api-Key" THEN "x-api-key" ELSE "none"
        present == /\ name \in DOMAIN headers
                   /\ headers[name] /= None
                   /\ \A i \in 1..Len(headers[name][1]) : headers[name][1][i] /= "<0xff>"
        text == trim(headers[name][1])
    IN  IF ~present THEN <<>>
        ELSE IF source.type = "header" THEN text
        ELSE IF Len(text) >= 3 /\ text[1] \in {"Bearer", "bearer", "BEARER"} /\ text[2] = " "
        THEN trim(SubSeq(text, 3, Len(text)))
        ELSE <<>>

StatedAuthorized(headers, gateway_auth) ==
    LET sources == gateway_auth.token_sources
        yielding == {i \in 1..Len(sources) : StatedCandidate(headers, sources[i]) /= <<>>}
    IN  /\ yielding /= {}
        /\ LET first == CHOOSE i \in yielding : \A j \in yielding : i <= j
           IN  \E k \in 1..Len(gateway_auth.tokens) :
                  gateway_auth.tokens[k] = StatedCandidate(headers, sources[first])

(* C15: a request is authorized iff the first token source, in configured  *)
(* order, that yields a non-empty candidate yields a string equal to an    *)
(* element of the allow-list; later sources are not consulted; the bearer  *)
(* scheme is matched in any case, the token trimmed, the comparison with   *)
(* the allow-list exact.                                                     *)
FirstYieldingSourceDecides ==
    CalledFn("extract_authorized_token") =>
        /\ Result /= None <=> StatedAuthorized(Args[1], Args[2])
        /\ Result /= None =>
              \E i \in 1..Len(Args[2].token_sources) :
                  Result = Some(StatedCandidate(Args[1], Args[2].token_sources[i]))

(* The first source yielded a token that is not allowed while the second   *)
(* source holds an allowed one: the request is refused.                     *)
EarlierSourceRefusesAllowedLater ==
    /\ CalledFn("extract_authorized_token")
    /\ Args[2].token_sources = <<AuthorizationBearer, HeaderSource("X-Api-Key")>>
    /\ Args[1]["authorization"] = Some(<<"bearer", " ", "GW1">>)
    /\ Args[1]["x-api-key"] = Some(<<" ", "gw2", " ">>)
    /\ Args[2].tokens = << <<"gw1">>, <<"gw2">> >>
    /\ Result = None

(* The match predicate as stated: the prefix is "/", or the path equals    *)
(* the prefix, or the path starts with the prefix followed by '/'.          *)
PrefixMatches(prefix, path) ==
    \/ prefix = <<"/">>
    \/ path = prefix
    \/ /\ Len(path) > Len(prefix)
       /\ \A i \in 1..Len(prefix) : path[i] = prefix[i]
       /\ path[Len(prefix) + 1] = "/"

(* C17: match_route returns a route whose prefix matches the path and no   *)
(* route of the list that matches has a strictly longer prefix; it returns *)
(* none iff no route of the list matches; /openai never matches /openai2.  *)
LongestMatchingPrefix ==
    CalledFn("match_route") =>
        LET path == Args[1]
            routes == Args[2]
        IN  /\ Result = None <=> \A i \in 1..Len(routes) : ~PrefixMatches(routes[i].prefix, path)
            /\ Result /= None =>
                  \E i \in 1..Len(routes) :
                      /\ Result = Some(routes[i])
                      /\ PrefixMatches(routes[i].prefix, path)
                      /\ \A j \in 1..Len(routes) :
                            PrefixMatches(routes[j].prefix, path)
                                => Len(routes[j].prefix) <= Len(routes[i].prefix)

(* The path /a/v2 continues the prefix /a/v without a boundary: of the     *)
(* routes /, /a/v and /a the lookup returned /a.                            *)
BoundaryFallsBackToShorter ==
    /\ CalledFn("match_route")
    /\ Args[1] = <<"/", "a", "/", "v", "2">>
    /\ Args[2] = <<BareRoute(<<"/">>), BareRoute(<<"/", "a", "/", "v">>), BareRoute(<<"/", "a">>)>>
    /\ Result = Some(BareRoute(<<"/", "a">>))

(* The outbound header of a name as stated; <<>> stands for "absent".      *)
InjectedAs(upstream, name) ==
    {i \in 1..Len(upstream.inject_headers) : AsciiLower(upstream.inject_headers[i].name) = name}
StatedOutbound(inbound, upstream, name) ==
    LET entries == InjectedAs(upstream, name)
        hop_by_hop == \E i \in 1..Len(HOP_BY_HOP_HEADERS) : HOP_BY_HOP_HEADERS[i] = name
        removed == \E i \in 1..Len(upstream.remove_headers) :
                       AsciiLower(upstream.remove_headers[i]) = name
        forwarded_ip == \E i \in 1..Len(FORWARDED_IP_HEADERS) : FORWARDED_IP_HEADERS[i] = name
    IN  IF name = "host" THEN <<>>
        ELSE IF entries /= {}
        THEN << upstream.inject_headers[CHOOSE i \in entries : \A j \in entries : j <= i].value >>
        ELSE IF hop_by_hop \/ removed \/ (forwarded_ip /\ ~upstream.forward_xff) THEN <<>>
        ELSE IF name \in DOMAIN inbound THEN inbound[name]
        ELSE <<>>

HeaderNames ==
    InboundNames \cup {"x-api-key", "x-other", "keep-alive", "forwarded", "bad name"}

(* C18: the outbound header map equals the reference: an injected name     *)
(* other than Host carries the value of the last inject entry with that    *)
(* name, even if it is hop-by-hop, in remove_headers or a forwarded-IP     *)
(* header, and never the caller's value; any other name is absent if it is *)
(* hop-by-hop, in remove_headers in any case, or a forwarded-IP header     *)
(* while forward_xff is false; Host is always absent; every remaining      *)
(* inbound header passes unchanged.                                          *)
OutboundHeadersAsStated ==
    (CalledFn("prepare_upstream_headers") /\ Result /= None) =>
        /\ DOMAIN Result[1] \subseteq HeaderNames
        /\ \A name \in HeaderNames :
              (IF name \in DOMAIN Result[1] THEN Result[1][name] ELSE <<>>)
                  = StatedOutbound(Args[1], Args[2], name)

(* The caller sent Authorization, which the policy both removes and        *)
(* injects twice: the outbound map carries the second injected value and   *)
(* not the caller's Connection header.                                      *)
InjectedOverridesRemoved ==
    /\ CalledFn("prepare_upstream_headers")
    /\ Args[2].remove_headers = <<"Authorization", "x-trace">>
    /\ Args[2].inject_headers = <<Inject("authorization", <<"k1">>), Inject("Authorization", <<"k2">>)>>
    /\ "authorization" \in DOMAIN Args[1]
    /\ "connection" \in DOMAIN Args[1]
    /\ Result /= None
    /\ Result[1]["authorization"] = << <<"k2">> >>
    /\ "connection" \notin DOMAIN Result[1]

(* The validity rule as stated: 1..128 characters, each an ASCII           *)
(* alphanumeric or one of '-', '_', '.'.                                    *)
StatedValidId(value) ==
    /\ Len(value) \in 1..128
    /\ \A i \in 1..Len(value) :
          value[i] \in {"a", "b", "c", "d", "e", "f", "p", "q", "r", "u", "A", "Z",
                        "0", "1", "2", "3", "4", "5", "6", "7", "8", "9",
                        "-", "_", "."}

InboundId(headers) ==
    IF "x-request-id" \in DOMAIN headers THEN Some(headers["x-request-id"][1]) ELSE None
ExactlyOneRequestId(response) ==
    "x-request-id" \in DOMAIN response /\ Len(response["x-request-id"]) = 1

BuildsIffValidated ==
    CalledFn("build_runtime_state") => (Result.built <=> Result.validated)

-----------------------------------------------------------------------------
(* Properties of saving the config, specification SpecSave.                *)

CanonicalContent == disk.files[disk.canonical]
WholeConfigs == { to_yaml(config) : config \in {CfgOne, CfgTwo} }

(* C21: at every moment, also after a failed write or rename and under     *)
(* concurrent saves, the config file holds its previous content or the     *)
(* complete text of a config that a save read, never a partial or mixed    *)
(* one; a failed write answers 500 write_error and a failed rename 500     *)
(* rename_error with the temp file removed.                                 *)
CanonicalAlwaysWhole ==
    /\ CanonicalContent \in {AsLoaded} \cup WholeConfigs
    /\ \A s \in Savers :
          (disk.savers[s].pc = "done" /\ disk.savers[s].yaml /= <<>>) =>
              \/ disk.savers[s].status = 200
              \/ disk.savers[s].status = 500
                 /\ disk.savers[s].code \in {"write_error", "rename_error"}

(* A prefix as validate is stated to accept it: it starts with '/' and     *)
(* does not end with '/' unless it is the root.                             *)
StatedAcceptedPrefix(prefix) ==
    /\ prefix /= <<>> /\ prefix[1] = "/"
    /\ prefix = <<"/">> \/ prefix[Len(prefix)] /= "/"

(* C22 as stated: for every accepted prefix and every remainder x,         *)
(* rewrite_path(prefix + "/" + x, prefix, true) is "/" + x and             *)
(* rewrite_path(prefix, prefix, true) is "/"; with strip_prefix false the  *)
(* path is returned unchanged.                                              *)
PrefixStrippedForEveryPrefix ==
    (CalledFn("rewrite_path") /\ StatedAcceptedPrefix(Args[2])) =>
        /\ Args[3] =>
              /\ \A x \in Remainders :
                    Args[1] = Args[2] \o <<"/">> \o x => Result = <<"/">> \o x
              /\ Args[1] = Args[2] => Result = <<"/">>
        /\ ~Args[3] => Result = Args[1]

(* C22 as amended: the law holds for every accepted prefix other than the  *)
(* root; under the root prefix, as with strip_prefix false, the path is    *)
(* returned unchanged.                                                      *)
PrefixStrippedUnlessRoot ==
    (CalledFn("rewrite_path") /\ StatedAcceptedPrefix(Args[2])) =>
        /\ (Args[3] /\ Args[2] /= <<"/">>) =>
              /\ \A x \in Remainders :
                    Args[1] = Args[2] \o <<"/">> \o x => Result = <<"/">> \o x
              /\ Args[1] = Args[2] => Result = <<"/">>
        /\ (~Args[3] \/ Args[2] = <<"/">>) => Result = Args[1]

(* A path two segments below its prefix is rewritten to those segments.    *)
RemainderKept ==
    /\ CalledFn("rewrite_path")
    /\ Args = << <<"/", "a", "/", "b", "/", "x", "/", "y">>, <<"/", "a", "/", "b">>, TRUE >>
    /\ Result = <<"/", "x", "/", "y">>

(* The Authorization header is Bearer followed by exactly the token.       *)
BearerOf(authorization, token) ==
    authorization \in { Some(<<"Bearer", " ", token>>), Some(<<"bearer", " ", token>>),
                        Some(<<" ", "BEARER", " ", " ", token, " ">>),
                        Some(<<"bearer", " ", " ", token, " ">>) }
GatewayTokens(config) == { config.tokens[i] : i \in 1..Len(config.tokens) }

(* C24: in every config that validate accepts with metrics enabled the     *)
(* metrics token is no element of gateway_auth.tokens, so no gateway token *)
(* is accepted as bearer token by the metrics and metrics-summary          *)
(* endpoints; they answer 401 unless the Authorization header is Bearer    *)
(* followed by exactly the metrics token.                                   *)
MetricsTokenDisjoint ==
    ((CalledFn("metrics") \/ CalledFn("metrics_summary"))
        /\ Result.validated /\ Args[1].metrics) =>
        /\ Args[1].metrics_token \notin GatewayTokens(Args[1])
        /\ \A token \in GatewayTokens(Args[1]) :
              BearerOf(Args[2], token) => Result.status = 401
        /\ Result.status /= 401 => BearerOf(Args[2], Args[1].metrics_token)

InjectedOf(config) == config.routes[2].upstream.inject_headers
(* The entries of a list of injected headers with a name, in any case, and *)
(* a non-empty value.                                                       *)
NonEmptyEntries(inject, name) ==
    {i \in 1..Len(inject) :
        inject[i].name \in {name, "X-Api-Key", "Authorization"}
        /\ AsciiLower(inject[i].name) = name /\ inject[i].value /= <<>>}
LastOf(indices) == CHOOSE i \in indices : \A j \in indices : j <= i

(* C25: for every config that validate accepts and every route to which an *)
(* effective upstream per-key limit applies, the key material of the       *)
(* route's semaphore is built from an injected authorization or x-api-key  *)
(* value and is never the literal "default".                                *)
DefaultKeyUnreachable ==
    (CalledFn("acquire_upstream") /\ Result.validated /\ Result.limit /= None) =>
        /\ Result.key_material /= <<"default">>
        /\ Result.key_material[1] \in {"authorization", "x-api-key"}
        /\ NonEmptyEntries(InjectedOf(Args[1]), Result.key_material[1]) /= {}

(* The key as stated: per name the last entry with a non-empty value,      *)
(* authorization before x-api-key, a Bearer value giving its token.        *)
StatedKeyValue(inject, name) == inject[LastOf(NonEmptyEntries(inject, name))].value
StatedKey(inject) ==
    IF NonEmptyEntries(inject, "authorization") /= {}
    THEN LET value == StatedKeyValue(inject, "authorization")
         IN  <<"authorization",
               IF Len(value) >= 2 /\ value[1] \in {"Bearer", "bearer", "BEARER"}
               THEN SubSeq(value, 2, Len(value)) ELSE value>>
    ELSE IF NonEmptyEntries(inject, "x-api-key") /= {}
    THEN <<"x-api-key", StatedKeyValue(inject, "x-api-key")>>
    ELSE <<"default">>

(* C26: the upstream key of a route is derived by scanning authorization   *)
(* and then x-api-key among inject_headers, names compared in any case;    *)
(* for each name the value used is that of the last inject entry with that *)
(* name whose value is non-empty; the first name that has such a value     *)
(* decides: "authorization:" + token for a Bearer value, else name:value.  *)
KeyFromLastNonEmptyEntry ==
    CalledFn("acquire_upstream") => Result.key_material = StatedKey(InjectedOf(Args[1]))

(* The routes of the list that match the path with the longest prefix.     *)
LongestMatches(path, routes) ==
    {i \in 1..Len(routes) :
        /\ PrefixMatches(routes[i].prefix, path)
        /\ \A j \in 1..Len(routes) :
              PrefixMatches(routes[j].prefix, path)
                  => Len(routes[j].prefix) <= Len(routes[i].prefix)}

(* C27: when several routes that match path P share the longest prefix     *)
(* length, match_route returns the one that comes first in the input order *)
(* of the route list.                                                       *)
FirstOfTiedRoutes ==
    (CalledFn("match_route") /\ Cardinality(LongestMatches(Args[1], Args[2])) > 1) =>
        LET first == CHOOSE i \in LongestMatches(Args[1], Args[2]) :
                         \A j \in LongestMatches(Args[1], Args[2]) : i <= j
        IN  Result = Some(Args[2][first])

-----------------------------------------------------------------------------
(* Properties of the in-flight counts and the summary buckets,              *)
(* specification SpecSummary.                                               *)

(* The requests of a route that passed both gates and have not ended.      *)
InFlightOn(route_id) ==
    {t \in Counted : /\ summary.requests[t].pc \in {"sending", "streaming"}
                     /\ summary.requests[t].route_id = route_id}

InflightCounted ==
    \A route_id \in SummaryRoutes :
        /\ summary.gauge[route_id] >= 0
        /\ inflight_current(summary.state, route_id) >= 0
        /\ summary.gauge[route_id] = Cardinality(InFlightOn(route_id))
        /\ inflight_current(summary.state, route_id) = Cardinality(InFlightOn(route_id))
        /\ InFlightOn(route_id) = {} =>
              summary.gauge[route_id] = 0 /\ inflight_current(summary.state, route_id) = 0

(* Both counts of a route go up by one in the step in which a request of   *)
(* the route passes the gates, down by one in the step in which one ends,  *)
(* and no other step, pruning included, touches a route's count.           *)
CountedOnce ==
    \A route_id \in SummaryRoutes :
        LET entered == {t \in Counted : /\ summary.requests[t].pc = "new"
                                        /\ summary'.requests[t].pc = "sending"
                                        /\ summary'.requests[t].route_id = route_id}
            left == {t \in InFlightOn(route_id) : summary'.requests[t].pc = "ended"}
            change == Cardinality(entered) - Cardinality(left)
        IN  /\ Cardinality(entered) + Cardinality(left) <= 1
            /\ summary'.gauge[route_id] = summary.gauge[route_id] + change
            /\ inflight_current(summary'.state, route_id)
                  = inflight_current(summary.state, route_id) + change
            /\ (change = 0 /\ inflight_current(summary.state, route_id) > 0)
                  => summary'.state.route_inflight[route_id]
                        = summary.state.route_inflight[route_id]

KeptDeques ==
    {Unwrap(summary.state.route_buckets[route_id]) :
        route_id \in {id \in SummaryRoutes : IsSome(summary.state.route_buckets[id])}}
    \cup
    {Unwrap(summary.state.token_buckets[token]) :
        token \in {k \in DOMAIN summary.state.token_buckets :
                      IsSome(summary.state.token_buckets[k])}}

InWindow(buckets, m) ==
    /\ \A i \in 1..Len(buckets) :
          /\ buckets[i].minute_epoch >= m - (TWENTY_FOUR_HOURS_MINUTES - 1)
          /\ buckets[i].minute_epoch <= m
    /\ \A i, j \in 1..Len(buckets) :
          i /= j => buckets[i].minute_epoch /= buckets[j].minute_epoch
    /\ Len(buckets) <= TWENTY_FOUR_HOURS_MINUTES

-----------------------------------------------------------------------------
(* Properties of the summary snapshot, specification SpecSnapshot.         *)

(* The observations stamped with a minute of from..to.                     *)
ObservedIn(from, to) ==
    {t \in Counted : /\ IsSome(summary.requests[t].observed_at)
                     /\ Unwrap(summary.requests[t].observed_at) >= from
                     /\ Unwrap(summary.requests[t].observed_at) <= to}

OfRoute(observations, route_id) ==
    {t \in observations : summary.requests[t].route_id = route_id}

OfToken(observations, label) ==
    {t \in observations : summary.requests[t].token_label = Some(label)}

(* What a snapshot reports for a route or a token: the field of its entry, *)
(* nothing if it has no entry.                                              *)
ReportedRoute(result, route_id, field) ==
    IF \E i \in 1..Len(result.routes) : result.routes[i].route_id = route_id
    THEN result.routes[CHOOSE i \in 1..Len(result.routes) :
                          result.routes[i].route_id = route_id][field]
    ELSE 0

ReportedToken(result, label, field) ==
    IF \E i \in 1..Len(result.tokens) : result.tokens[i].token = label
    THEN result.tokens[CHOOSE i \in 1..Len(result.tokens) :
                          result.tokens[i].token = label][field]
    ELSE 0

RECURSIVE SumOverRoutes(_, _, _)
SumOverRoutes(result, route_ids, field) ==
    IF route_ids = {} THEN 0
    ELSE LET id == CHOOSE id \in route_ids : TRUE
         IN  ReportedRoute(result, id, field) + SumOverRoutes(result, route_ids \ {id}, field)

PeaksCoverInflight ==
    CalledFn("snapshot_summary") =>
        \A i \in 1..Len(Result.routes) :
            /\ Result.routes[i].inflight_current <= Result.routes[i].inflight_peak_1h
            /\ Result.routes[i].inflight_peak_1h <= Result.routes[i].inflight_peak_24h

(* The part of it that every snapshot satisfies.                           *)
HourPeakWithinDayPeak ==
    CalledFn("snapshot_summary") =>
        \A i \in 1..Len(Result.routes) :
            Result.routes[i].inflight_peak_1h <= Result.routes[i].inflight_peak_24h

-----------------------------------------------------------------------------
(* Properties of the result label of a forward attempt, specification      *)
(* SpecCalls.                                                               *)

(* The response that goes with a result label.                             *)
StatedResponseOf(label) ==
    CASE label = "timeout" -> <<504, "upstream_timeout">>
      [] label = "connect_error" -> <<502, "upstream_connect_error">>
      [] label = "request_error" -> <<502, "upstream_request_failed">>

(* C38: for every forward attempt the result label recorded for the        *)
(* upstream duration agrees with the response returned downstream: timeout *)
(* with 504 upstream_timeout, connect_error with 502                       *)
(* upstream_connect_error, request_error with 502 upstream_request_failed, *)
(* ok with a forwarded upstream response, for every combination of the     *)
(* error's connect and timeout flags.                                       *)
LabelAgreesWithResponse ==
    CalledFn("forward_to_upstream") =>
        IF Result.label = "ok"
        THEN Result.response.outcome = "success" /\ Args[1].kind = "Response"
        ELSE <<Result.response.status, Result.response.code>> = StatedResponseOf(Result.label)

(* The two agree for every error but the one that is both a connect error  *)
(* and a timeout.                                                           *)
LabelAgreesUnlessConnectTimeout ==
    (CalledFn("forward_to_upstream")
        /\ ~(Args[1].kind = "Request" /\ Args[1].is_connect /\ Args[1].is_timeout))
        => LabelAgreesWithResponse

====
